---- MODULE Spec2Model ----
(***************************************************************************)
(* A model of the legal-citation engine of ai-law-research: the corpus     *)
(* (table cases), the citation graph (table citations), the ingestion      *)
(* paths that write them, the citator badge, citation resolution for a     *)
(* brief, rank fusion and the brief's suggestions.                         *)
(*                                                                         *)
(* Tables are modelled as the schema of workers/etl.py declares them:      *)
(* cases has the primary key id; citations has a serial primary key and    *)
(* two foreign keys to cases(id), and no other constraint.  Rows of        *)
(* citations carry no information in their serial id, so the table is a    *)
(* bag of rows.                                                            *)
(***************************************************************************)
EXTENDS Bags, FiniteSets, Integers, Sequences, TLC

VARIABLES
    cases,      \* table cases: a function from the ids present to their rows
    citations,  \* table citations: a bag of rows
    request,    \* the arguments of the call a request handler is to answer
    clients,    \* what startup left: the optional clients and the API key
    cache,      \* the entries of the result cache, by key
    tables,     \* the further tables and globals of the process, by name
    last        \* the last operation called, its arguments and what it returned

vars == <<cases, citations, request, clients, cache, tables, last>>

NULL == "NULL"      \* SQL NULL in a text column
NULLN == 0 - 1      \* SQL NULL in a numeric or date column
None == "None"      \* Python None

(***************************************************************************)
(* Bounds of the model.                                                    *)
(***************************************************************************)
MaxRows == 2        \* rows of citations the ingestion actions may build up
MaxBatch == 2       \* rows of one input file or one API page

CaseIds == {"c1", "c2", "c3"}
ClusterIds == {"k1", "k2", "k3"}

(***************************************************************************)
(* Rows of cases (etl.py create_tables).  A title and a content are        *)
(* sequences of words; dates are numbers.                                  *)
(***************************************************************************)
CaseRow(title, date, cite, content, cluster) ==
    [title |-> title, decision_date |-> date, reporter_cite |-> cite,
     content |-> content, cluster_id |-> cluster]

\* The corpus the graph actions run against: c1 and c2 are present, c3 is not.
GraphCorpus ==
    [id \in {"c1", "c2"} |->
        IF id = "c1" THEN CaseRow(<<"Terry", "v.", "Ohio">>, 1, NULL, <<>>, "k1")
                     ELSE CaseRow(<<"Mapp", "v.", "Ohio">>, 2, NULL, <<>>, "k2")]

(***************************************************************************)
(* Rows of citations.  signal and confidence are NULL when the inserting   *)
(* statement does not name the column; confidence is in tenths.            *)
(***************************************************************************)
CitationRow(source, target, signal, confidence) ==
    [source |-> source, target |-> target, signal |-> signal, confidence |-> confidence]

Copies(row, n) == IF n = 0 THEN EmptyBag ELSE [r \in {row} |-> n]

\* a table declared without its REFERENCES clauses
ForeignKeysDropped(corpus, row) == TRUE

\* REFERENCES cases(id) on source_case_id and on target_case_id: a NULL passes.
ForeignKeysHold(corpus, row) ==
    /\ row.source \in (DOMAIN corpus) \cup {NULL}
    /\ row.target \in (DOMAIN corpus) \cup {NULL}

\* INSERT INTO citations ... ON CONFLICT DO NOTHING.  The table's only unique
\* index is its serial primary key, which a new row never repeats, so nothing
\* conflicts; a foreign key violation raises and stores nothing.
InsertCitation(tbl, corpus, row) ==
    IF ForeignKeysHold(corpus, row)
    THEN [raised |-> FALSE, tbl |-> tbl (+) Copies(row, 1)]
    ELSE [raised |-> TRUE, tbl |-> tbl]

(***************************************************************************)
(* workers/etl.py: process_citation, resolve_citation, detect_signal.      *)
(* A citation is the case it denotes (cites) and the keywords its text     *)
(* contains.                                                               *)
(***************************************************************************)
Keywords == {"overrul", "distinguish", "follow", "criticiz"}

EtlCitations == [cites : CaseIds, text : SUBSET Keywords]

\* resolve_citation returns None for every citation.
resolve_citation(citation) == None

detect_signal(citation) ==
    IF "overrul" \in citation.text THEN "overruled"
    ELSE IF "distinguish" \in citation.text THEN "distinguished"
    ELSE IF "follow" \in citation.text THEN "followed"
    ELSE IF "criticiz" \in citation.text THEN "criticized"
    ELSE "cited"

\* The table after process_citation(conn, source_case_id, citation); an
\* exception of the INSERT is caught and logged.
process_citation(tbl, corpus, source_case_id, citation) ==
    LET target_case_id == resolve_citation(citation)
    IN  IF target_case_id # None
        THEN InsertCitation(tbl, corpus,
                 CitationRow(source_case_id, target_case_id, detect_signal(citation), NULLN)).tbl
        ELSE tbl

ProcessCitation(source, citation) ==
    /\ BagCardinality(citations) < MaxRows
    /\ citations' = process_citation(citations, cases, source, citation)
    /\ last' = [op |-> "process_citation", source |-> source, cites |-> citation.cites,
                signal |-> detect_signal(citation),
                stored |-> citations' # citations]
    /\ UNCHANGED <<cases, request, clients, cache, tables>>

(***************************************************************************)
(* workers/bulk_loader.py: load_citations over the rows of citations.csv.  *)
(***************************************************************************)
\* get_case_by_cluster: the id of a case whose metadata names the cluster, or
\* None.  (fetchrow returns one row; GraphCorpus gives each case its own
\* cluster, so there is at most one.)
get_case_by_cluster(corpus, cluster_id) ==
    IF \E id \in DOMAIN corpus : corpus[id].cluster_id = cluster_id
    THEN CHOOSE id \in DOMAIN corpus : corpus[id].cluster_id = cluster_id
    ELSE None

BulkCsvRows ==
    {[citing_opinion_id |-> r[1], cited_opinion_id |-> r[2]] :
        r \in {<<"k1", "k2">>, <<"k2", "k1">>, <<"k1", "k1">>, <<"k1", "k3">>}}

RECURSIVE load_citations(_, _, _)
load_citations(tbl, corpus, rows) ==
    IF rows = <<>> THEN tbl
    ELSE LET row == Head(rows)
             source_id == get_case_by_cluster(corpus, row.citing_opinion_id)
             target_id == get_case_by_cluster(corpus, row.cited_opinion_id)
             next == IF source_id # None /\ target_id # None
                     THEN InsertCitation(tbl, corpus,
                              CitationRow(source_id, target_id, NULL, NULLN)).tbl
                     ELSE tbl
         IN  load_citations(next, corpus, Tail(rows))

SeqsUpTo(S, n) == UNION {[1..k -> S] : k \in 0..n}

LoadCitations(csv) ==
    /\ BagCardinality(citations) + Len(csv) <= MaxRows
    /\ citations' = load_citations(citations, cases, csv)
    /\ last' = [op |-> "load_citations", rows |-> Len(csv),
                inserted |-> BagCardinality(citations') - BagCardinality(citations)]
    /\ UNCHANGED <<cases, request, clients, cache, tables>>

(***************************************************************************)
(* scripts/import_citations_local.py: main over the citation-map CSV.      *)
(***************************************************************************)
MapCsvRows ==
    {[citing_opinion_id |-> r[1], cited_opinion_id |-> r[2]] :
        r \in {<<"c1", "c2">>, <<"c2", "c1">>, <<"c1", "c1">>, <<"c1", "c3">>}}

RECURSIVE InsertAllUntilRaise(_, _, _)
\* the insert loop with the try around the whole loop
InsertAllUntilRaise(acc, corpus, rows) ==
    IF rows = <<>> THEN acc
    ELSE LET r == InsertCitation(acc.tbl, corpus, Head(rows))
         IN  IF r.raised THEN [tbl |-> acc.tbl, raised |-> acc.raised + 1]
             ELSE InsertAllUntilRaise([tbl |-> r.tbl, raised |-> acc.raised],
                                      corpus, Tail(rows))

RECURSIVE InsertAll(_, _, _)
\* the insert loop of a script: each row in turn, an exception caught per row;
\* acc is the table so far and how many inserts raised
InsertAll(acc, corpus, rows) ==
    IF rows = <<>> THEN acc
    ELSE LET r == InsertCitation(acc.tbl, corpus, Head(rows))
         IN  InsertAll([tbl |-> r.tbl, raised |-> acc.raised + (IF r.raised THEN 1 ELSE 0)],
                       corpus, Tail(rows))

RECURSIVE citations_found(_, _)
\* the rows of the map both of whose cases are in the database
citations_found(our_case_ids, rows) ==
    IF rows = <<>> THEN <<>>
    ELSE LET row == Head(rows)
             rest == citations_found(our_case_ids, Tail(rows))
         IN  IF row.cited_opinion_id \in our_case_ids /\ row.citing_opinion_id \in our_case_ids
             THEN <<CitationRow(row.citing_opinion_id, row.cited_opinion_id, NULL, 10)>> \o rest
             ELSE rest

import_citations_local(tbl, corpus, csv) ==
    LET found == citations_found(DOMAIN corpus, csv)
    IN  IF found = <<>> THEN tbl
        ELSE InsertAll([tbl |-> EmptyBag, raised |-> 0], corpus, found).tbl  \* DELETE FROM citations, then the inserts

ImportCitationsLocal(csv) ==
    /\ Len(csv) <= MaxRows
    /\ citations' = import_citations_local(citations, cases, csv)
    /\ last' = [op |-> "import_citations_local", rows |-> Len(csv),
                inserted |-> Len(citations_found(DOMAIN cases, csv))]
    /\ UNCHANGED <<cases, request, clients, cache, tables>>

(***************************************************************************)
(* scripts/quick_import.py: import_citations over one page of the          *)
(* opinions-cited API.                                                     *)
(***************************************************************************)
QuickImportPage == 100      \* citations[:100]

ApiCitations ==
    {[citing_opinion |-> r[1], cited_opinion |-> r[2]] :
        r \in {<<"c1", "c2">>, <<"c2", "c1">>, <<"c1", "c1">>, <<"c1", "c3">>}}

FirstN(seq, n) == SubSeq(seq, 1, IF Len(seq) < n THEN Len(seq) ELSE n)

RECURSIVE ApiRows(_)
ApiRows(cites) ==
    IF cites = <<>> THEN <<>>
    ELSE <<CitationRow(Head(cites).citing_opinion, Head(cites).cited_opinion, NULL, NULLN)>>
         \o ApiRows(Tail(cites))

\* the table after the loop and how many of its inserts raised (except: pass)
import_citations(tbl, corpus, results) ==
    InsertAll([tbl |-> tbl, raised |-> 0], corpus, ApiRows(FirstN(results, QuickImportPage)))

QuickImportCitations(results) ==
    /\ BagCardinality(citations) + Len(results) <= MaxRows
    /\ citations' = import_citations(citations, cases, results).tbl
    /\ last' = [op |-> "import_citations", results |-> results,
                raised |-> import_citations(citations, cases, results).raised,
                inserted |-> BagCardinality(citations') - BagCardinality(citations)]
    /\ UNCHANGED <<cases, request, clients, cache, tables>>

(***************************************************************************)
(* scripts/extract_citations.py: extract_citations_from_case and           *)
(* process_case.  A cite of the content is the id its strings look up to   *)
(* in case_lookup (None for a miss) and whether eyecite parsed it as a     *)
(* FullCaseCitation.                                                       *)
(***************************************************************************)
MinContentLen == 100    \* len(content) < 100: return

ContentCites ==
    {[full |-> r[1], matched_id |-> r[2]] :
        r \in {<<TRUE, "c1">>, <<TRUE, "c2">>, <<FALSE, "c2">>, <<TRUE, None>>}}

RECURSIVE extract_citations_from_case(_, _)
extract_citations_from_case(case_id, cites) ==
    IF cites = <<>> THEN <<>>
    ELSE LET cite == Head(cites)
             rest == extract_citations_from_case(case_id, Tail(cites))
         IN  IF cite.full /\ cite.matched_id # None /\ cite.matched_id # case_id  \* Don't self-cite
             THEN <<[matched_id |-> cite.matched_id, confidence |-> 9]>> \o rest
             ELSE rest

Greatest(a, b) == IF a = NULLN THEN b ELSE IF b = NULLN THEN a ELSE IF a > b THEN a ELSE b

RECURSIVE BagSum(_, _)
BagSum(B, S) ==
    IF S = {} THEN 0
    ELSE LET r == CHOOSE x \in S : TRUE IN B[r] + BagSum(B, S \ {r})

\* INSERT ... ON CONFLICT (citing_case_id, cited_case_id) DO UPDATE SET
\* confidence = GREATEST(citations.confidence, EXCLUDED.confidence)
UpsertConfidence(tbl, corpus, row) ==
    LET same(r) == r.source = row.source /\ r.target = row.target
        merged(r) == IF same(r)
                     THEN [r EXCEPT !.confidence = Greatest(r.confidence, row.confidence)]
                     ELSE r
        kinds == {merged(r) : r \in BagToSet(tbl)}
    IN  IF ~ForeignKeysHold(corpus, row) THEN tbl
        ELSE IF \E r \in BagToSet(tbl) : same(r)
        THEN [k \in kinds |-> BagSum(tbl, {r \in BagToSet(tbl) : merged(r) = k})]
        ELSE tbl (+) Copies(row, 1)

RECURSIVE StoreCitations(_, _, _, _)
StoreCitations(tbl, corpus, case_id, found) ==
    IF found = <<>> THEN tbl
    ELSE StoreCitations(
             UpsertConfidence(tbl, corpus,
                 CitationRow(case_id, Head(found).matched_id, NULL, Head(found).confidence)),
             corpus, case_id, Tail(found))

extract_process_case(tbl, corpus, case_id, content) ==
    IF content.len < MinContentLen THEN tbl
    ELSE StoreCitations(tbl, corpus, case_id,
                        extract_citations_from_case(case_id, content.cites))

ExtractProcessCase(case_id, content) ==
    /\ BagCardinality(citations) + Len(content.cites) <= MaxRows
    /\ citations' = extract_process_case(citations, cases, case_id, content)
    /\ last' = [op |-> "extract_process_case", case_id |-> case_id,
                found |-> IF content.len < MinContentLen THEN 0
                          ELSE Len(extract_citations_from_case(case_id, content.cites))]
    /\ UNCHANGED <<cases, request, clients, cache, tables>>

(***************************************************************************)
(* backend/main.py: get_citator.                                           *)
(***************************************************************************)
CitatorLimit == 100     \* LIMIT 100
TreatmentsShown == 5    \* negative[:5], positive[:5]

NegativeSignals == {"overruled", "criticized", "questioned"}
PositiveSignals == {"followed", "affirmed", "cited_favorably"}

\* FROM citations ct JOIN cases c2 ON ct.source_case_id = c2.id
\* WHERE ct.target_case_id = $1
CitingRows(tbl, corpus, case_id) ==
    LET S == {r \in BagToSet(tbl) : r.target = case_id /\ r.source \in DOMAIN corpus}
    IN  [r \in S |-> tbl[r]]

\* ORDER BY c2.decision_date DESC NULLS LAST: r comes strictly before s
SortsBefore(corpus, r, s) ==
    LET dr == corpus[r.source].decision_date
        ds == corpus[s.source].decision_date
    IN  IF dr = NULLN THEN FALSE ELSE IF ds = NULLN THEN TRUE ELSE dr > ds

\* The results the query can return.  Rows are taken in date order up to
\* CitatorLimit; the rows of one date come in any order, so when the limit
\* falls inside a date, any choice of that date's rows can be the one left
\* out (out: how many copies of each of its rows are left out).
FetchCiting(tbl, corpus, case_id) ==
    LET all == CitingRows(tbl, corpus, case_id)
        kinds == BagToSet(all)
        before(r) == BagSum(all, {s \in kinds : SortsBefore(corpus, s, r)})
        upto(r) == BagSum(all, {s \in kinds : ~SortsBefore(corpus, r, s)})
        inner == {r \in kinds : upto(r) <= CitatorLimit}
        boundary == {r \in kinds : before(r) < CitatorLimit /\ upto(r) > CitatorLimit}
        drop == IF boundary = {} THEN 0
                ELSE LET b == CHOOSE r \in boundary : TRUE IN upto(b) - CitatorLimit
        outs == {o \in [boundary -> 0..drop] :
                    /\ \A r \in boundary : o[r] <= all[r]
                    /\ BagSum(o, boundary) = drop}
    IN  IF BagCardinality(all) <= CitatorLimit THEN {all}
        ELSE {[r \in inner \cup {x \in boundary : o[x] < all[x]} |->
                  IF r \in inner THEN all[r] ELSE all[r] - o[r]] : o \in outs}

Min(a, b) == IF a < b THEN a ELSE b

citator_of(case_id, citing) ==
    LET negative == {r \in BagToSet(citing) : r.signal \in NegativeSignals}
        positive == {r \in BagToSet(citing) : r.signal \in PositiveSignals}
        badge == IF negative # {}
                 THEN (IF \E c \in negative : c.signal = "overruled" THEN "red" ELSE "yellow")
                 ELSE "green"
    IN  [op |-> "get_citator", case_id |-> case_id, badge |-> badge,
         negative_treatments |-> Min(TreatmentsShown, BagSum(citing, negative)),
         positive_treatments |-> Min(TreatmentsShown, BagSum(citing, positive))]

GetCitator(case_id) ==
    /\ \E citing \in FetchCiting(citations, cases, case_id) :
          last' = citator_of(case_id, citing)
    /\ UNCHANGED <<cases, citations, request, clients, cache, tables>>

\* the badges get_citator can return for a case in the current state
BadgesFor(case_id) ==
    {citator_of(case_id, citing).badge : citing \in FetchCiting(citations, cases, case_id)}

(***************************************************************************)
(* The citation graph under its ingestion paths.                           *)
(***************************************************************************)
Init ==
    /\ cases = GraphCorpus
    /\ citations = EmptyBag
    /\ request = [op |-> None]
    /\ clients = [started |-> FALSE]
    /\ cache = <<>>
    /\ tables = <<>>
    /\ last = [op |-> "init"]

Next ==
    \/ \E source \in DOMAIN cases, citation \in EtlCitations : ProcessCitation(source, citation)
    \/ \E csv \in SeqsUpTo(BulkCsvRows, MaxBatch) : LoadCitations(csv)
    \/ \E csv \in SeqsUpTo(MapCsvRows, MaxBatch) : ImportCitationsLocal(csv)
    \/ \E results \in SeqsUpTo(ApiCitations, MaxBatch) : QuickImportCitations(results)
    \/ \E case_id \in DOMAIN cases,
          content \in [len : {0, MinContentLen}, cites : SeqsUpTo(ContentCites, MaxBatch)] :
          ExtractProcessCase(case_id, content)
    \/ \E case_id \in CaseIds : GetCitator(case_id)

Spec == Init /\ [][Next]_vars

(***************************************************************************)
(* The citator over any stored edge set: the table holds up to MaxEdges    *)
(* arbitrary rows and, to reach the query's LIMIT, CitatorLimit copies of  *)
(* one more row.                                                           *)
(***************************************************************************)
MaxEdges == 2

StoredSignals ==
    NegativeSignals \cup PositiveSignals \cup {"cited", "distinguished", NULL}

CitatorCorpus ==
    [id \in CaseIds |->
        CaseRow(<<id>>, IF id = "c1" THEN 1 ELSE IF id = "c2" THEN 2 ELSE NULLN,
                NULL, <<>>, NULL)]

CitatorRows ==
    [source : CaseIds, target : {"c1", "c2"}, signal : StoredSignals, confidence : {NULLN}]

FillerRows == {r \in CitatorRows : r.signal = "cited"}

Range(f) == {f[i] : i \in DOMAIN f}

InitCitator ==
    /\ cases = CitatorCorpus
    /\ \E light \in {Range(sq) : sq \in SeqsUpTo(CitatorRows, MaxEdges)},
          filler \in FillerRows, n \in {0, CitatorLimit} :
          citations = SetToBag(light) (+) Copies(filler, n)
    /\ request = [op |-> None]
    /\ clients = [started |-> FALSE]
    /\ cache = <<>>
    /\ tables = <<>>
    /\ last = [op |-> "init"]

NextCitator == \E case_id \in CaseIds : GetCitator(case_id)

SpecCitator == InitCitator /\ [][NextCitator]_vars

(***************************************************************************)
(* Claims about the citation graph and the citator.                        *)
(***************************************************************************)
\* the signals stored for the ordered pair (source, target)
PairSignals(tbl, source, target) ==
    {r.signal : r \in {x \in BagToSet(tbl) : x.source = source /\ x.target = target}}

\* the badges get_citator can return for a case over a given table
BadgesOver(tbl, corpus, case_id) ==
    {citator_of(case_id, citing).badge : citing \in FetchCiting(tbl, corpus, case_id)}

\* C1: when process_citation is called for a citation of A to B whose text
\* says overruled, and next for a citation of A to B with no treatment keyword
\* (A and B two cases of the corpus), then after the second call the pair
\* (A, B) still has the signal overruled stored and the badge of B is red.
C1_OverruledSurvivesCited ==
    [][(/\ last.op = "process_citation" /\ last.signal = "overruled"
        /\ last'.op = "process_citation" /\ last'.signal = "cited"
        /\ last'.source = last.source /\ last'.cites = last.cites
        /\ last.source \in DOMAIN cases /\ last.cites \in DOMAIN cases
        /\ last.source # last.cites)
       => /\ "overruled" \in PairSignals(citations', last.source, last.cites)
          /\ BadgesOver(citations', cases', last.cites) = {"red"}]_vars

\* C2: whatever edges are stored, the badge get_citator returns for a case is
\* red exactly when some stored edge targeting the case is overruled, yellow
\* exactly when none is overruled and some is criticized or questioned, and
\* green otherwise.
C2_BadgeMatchesIncomingEdges ==
    last.op = "get_citator" =>
        LET incoming == {r.signal : r \in {x \in BagToSet(citations) : x.target = last.case_id}}
        IN  /\ last.badge = "red" <=> "overruled" \in incoming
            /\ last.badge = "yellow" <=>
                   /\ "overruled" \notin incoming
                   /\ incoming \cap {"criticized", "questioned"} # {}
            /\ last.badge = "green" <=> incoming \cap NegativeSignals = {}

\* C3: the table never holds two rows for one ordered pair (source, target).
C3_OneEdgePerPair ==
    \A r \in BagToSet(citations) :
        BagSum(citations, {x \in BagToSet(citations) :
                              x.source = r.source /\ x.target = r.target}) = 1

\* C4: the table never holds a row whose source is its target.
C4_NoSelfCitation ==
    \A r \in BagToSet(citations) : r.source # r.target

\* the rows of an API page that name a case the corpus does not hold
AbsentRefs(corpus, results) ==
    {i \in DOMAIN results : results[i].citing_opinion \notin DOMAIN corpus
                            \/ results[i].cited_opinion \notin DOMAIN corpus}

\* C5: every stored edge has its source and its target in the corpus, and of
\* a page of edges handed to the database exactly those that name an absent
\* case raise and store nothing: the table grows by the other rows only.
C5_ReferentialIntegrity ==
    /\ \A r \in BagToSet(citations) :
          r.source \in DOMAIN cases /\ r.target \in DOMAIN cases
    /\ last.op = "import_citations" =>
          /\ last.raised = Cardinality(AbsentRefs(cases, last.results))
          /\ last.inserted = Len(last.results) - last.raised

\* a page with one edge to an absent case and one edge between present cases
\* went through: the first raised, the second was stored
C5_Witness ==
    /\ last.op = "import_citations"
    /\ last.raised = 1 /\ last.inserted = 1
    /\ \E i \in DOMAIN last.results : last.results[i].cited_opinion = "c3"

(***************************************************************************)
(* backend/brief_analyzer.py: validate_citations, and backend/main.py:     *)
(* find_case_by_citation.                                                   *)
(*                                                                         *)
(* A text is a sequence over an alphabet of digits, the space, the comma   *)
(* and whole words.  A field Python tests for truth is 0 (a number) or     *)
(* <<>> (a text) when it is None or empty.                                 *)
(***************************************************************************)
Lower(a) ==
    CASE a = "Terry" -> "terry"
      [] a = "TERRY" -> "terry"
      [] a = "Mapp" -> "mapp"
      [] a = "Ohio" -> "ohio"
      [] a = "U.S." -> "u.s."
      [] a = "Overruled" -> "overruled"
      [] a = "See" -> "see"
      [] a = "Id." -> "id."
      [] a = "Celotex" -> "celotex"
      [] a = "Corp." -> "corp."
      [] a = "Catrett" -> "catrett"
      [] OTHER -> a

LowerText(t) == [i \in DOMAIN t |-> Lower(t[i])]

DigitChar(d) ==
    CASE d = 0 -> "0" [] d = 1 -> "1" [] d = 2 -> "2" [] d = 3 -> "3" [] d = 4 -> "4"
      [] d = 5 -> "5" [] d = 6 -> "6" [] d = 7 -> "7" [] d = 8 -> "8" [] d = 9 -> "9"

RECURSIVE Str(_)
\* str(n) of a number n >= 0
Str(n) == IF n < 10 THEN <<DigitChar(n)>> ELSE Str(n \div 10) \o <<DigitChar(n % 10)>>

OccursAt(t, p, i) ==
    /\ i + Len(p) - 1 <= Len(t)
    /\ \A j \in 1..Len(p) : t[i + j - 1] = p[j]

\* p in t
Contains(t, p) == \E i \in 1..(Len(t) + 1) : OccursAt(t, p, i)

\* the position after the first occurrence of p in t that starts at from or
\* later; 0 when there is none
FirstAfter(t, p, from) ==
    LET S == {i \in from..(Len(t) + 1) : OccursAt(t, p, i)}
    IN  IF S = {} THEN 0 ELSE (CHOOSE i \in S : \A k \in S : i <= k) + Len(p)

RECURSIVE LikeFrom(_, _, _)
LikeFrom(t, parts, from) ==
    IF parts = <<>> THEN TRUE
    ELSE LET nxt == FirstAfter(t, Head(parts), from)
         IN  nxt # 0 /\ LikeFrom(t, Tail(parts), nxt)

\* t ILIKE '%p1%p2%...%pn%'
ILike(t, parts) ==
    LikeFrom(LowerText(t), [i \in DOMAIN parts |-> LowerText(parts[i])], 1)

\* text.split(",")[0]
BeforeComma(t) ==
    LET S == {i \in DOMAIN t : t[i] = ","}
    IN  IF S = {} THEN t ELSE SubSeq(t, 1, (CHOOSE i \in S : \A k \in S : i <= k) - 1)

\* SELECT ... FROM cases WHERE case_name ILIKE '%name%' LIMIT 1: the rows the
\* query can return (no ORDER BY: any matching row)
RowsByName(corpus, name) ==
    {id \in DOMAIN corpus : ILike(corpus[id].title, <<name>>)}

\* ... WHERE metadata::text ILIKE $1 OR content ILIKE $1 LIMIT 1, with
\* $1 = f"%{volume}%{reporter}%{page}%".  The metadata text of a row is its
\* citation string.
RowsByCitation(corpus, cite) ==
    LET pattern == <<Str(cite.volume), cite.reporter, Str(cite.page)>>
    IN  {id \in DOMAIN corpus :
            ILike(corpus[id].reporter_cite, pattern) \/ ILike(corpus[id].content, pattern)}

FoundRows(corpus, cite) ==
    LET first == IF cite.case_name # <<>> THEN RowsByName(corpus, cite.case_name) ELSE {}
        second == IF first = {} /\ cite.volume # 0 /\ cite.reporter # <<>> /\ cite.page # 0
                  THEN RowsByCitation(corpus, cite) ELSE {}
        third == IF first = {} /\ second = {} /\ cite.text # <<>>
                    /\ Contains(cite.text, <<" ", "v.", " ">>)
                 THEN RowsByName(corpus, BeforeComma(cite.text)) ELSE {}
    IN  IF first # {} THEN first ELSE IF second # {} THEN second ELSE third

\* the diagnostic without its fallback text
problem_without_default(cite) ==
    IF cite.year # 0 /\ cite.year < 1950
    THEN "Very old case - check if still good law"
    ELSE IF cite.text # <<>> /\ Contains(LowerText(cite.text), <<"overruled">>)
    THEN "May have been overruled"
    ELSE IF cite.reporter = <<>> THEN "Incomplete citation format"
    ELSE None

problem_of(cite) ==
    LET problem ==
            IF cite.year # 0 /\ cite.year < 1950
            THEN "Very old case - check if still good law"
            ELSE IF cite.text # <<>> /\ Contains(LowerText(cite.text), <<"overruled">>)
            THEN "May have been overruled"
            ELSE IF cite.reporter = <<>> THEN "Incomplete citation format"
            ELSE None
    IN  IF problem # None THEN problem ELSE "Not found in database"

\* validate_citations appending only the misses that one of its checks flags
ValidateOneFlaggedOnly(corpus, cite) ==
    IF FoundRows(corpus, cite) # {}
    THEN {[citation |-> cite, found_case |-> id, status |-> "valid"] :
             id \in FoundRows(corpus, cite)}
    ELSE {[citation |-> cite, problem |-> problem_of(cite),
           status |-> IF problem_without_default(cite) = None THEN "unlisted"
                      ELSE "warning"]}

\* what validate_citations can append for one citation
ValidateOne(corpus, cite) ==
    IF FoundRows(corpus, cite) # {}
    THEN {[citation |-> cite, found_case |-> id, status |-> "valid"] :
             id \in FoundRows(corpus, cite)}
    ELSE {[citation |-> cite, problem |-> problem_of(cite), status |-> "warning"]}

RECURSIVE Select(_, _)
Select(sq, status) ==
    IF sq = <<>> THEN <<>>
    ELSE (IF Head(sq).status = status THEN <<Head(sq)>> ELSE <<>>) \o Select(Tail(sq), status)

RECURSIVE ValidateAll(_, _)
\* the outcomes the loop over the citations can produce, in order
ValidateAll(corpus, cites) ==
    IF cites = <<>> THEN {<<>>}
    ELSE {<<o>> \o rest : o \in ValidateOne(corpus, Head(cites)),
                          rest \in ValidateAll(corpus, Tail(cites))}

ValidateCitations ==
    /\ request.op = "validate_citations"
    /\ \E outcome \in ValidateAll(cases, request.cites) :
          last' = [op |-> "validate_citations", total |-> Len(request.cites),
                   validated |-> Select(outcome, "valid"),
                   problematic |-> Select(outcome, "warning")]
    /\ UNCHANGED <<cases, citations, request, clients, cache, tables>>

\* SELECT * FROM cases WHERE reporter_cite = $1, fetchrow
FindCaseByCitation ==
    /\ request.op = "find_case_by_citation"
    /\ LET rows == {id \in DOMAIN cases : cases[id].reporter_cite = request.citation}
       IN  \E found \in (IF rows = {} THEN {None} ELSE rows) :
              last' = [op |-> "find_case_by_citation", citation |-> request.citation,
                       found |-> found]
    /\ UNCHANGED <<cases, citations, request, clients, cache, tables>>

(***************************************************************************)
(* Resolution over a corpus drawn from a few entries and mentions as       *)
(* extract_citations builds them.                                          *)
(***************************************************************************)
MaxMentions == 2

RECURSIVE Words(_)
\* words joined by single spaces
Words(ws) ==
    IF Len(ws) <= 1 THEN ws ELSE <<Head(ws), " ">> \o Words(Tail(ws))

CiteText(volume, reporter, page) ==
    Str(volume) \o <<" ">> \o reporter \o <<" ">> \o Str(page)

TerryName == Words(<<"Terry", "v.", "Ohio">>)
MappName == Words(<<"Mapp", "v.", "Ohio">>)

ResolverEntries ==
    { CaseRow(TerryName, 1, CiteText(3, <<"U.S.">>, 1), <<>>, NULL),
      CaseRow(Words(<<"TERRY", "v.", "Ohio">>), 2, CiteText(2, <<"U.S.">>, 3), <<>>, NULL),
      CaseRow(MappName, 2, CiteText(13, <<"U.S.">>, 12), <<>>, NULL),
      CaseRow(MappName, 2, CiteText(13, <<"U.S.">>, 12),
              <<"See", " ">> \o CiteText(3, <<"U.S.">>, 1), NULL) }

ResolverCorpora == UNION {[ids -> ResolverEntries] : ids \in SUBSET {"c1", "c2"}}

\* extract_citations on a FullCaseCitation: the text is rebuilt from the parts
FullMention(case_name, volume, reporter, page, year) ==
    [text |-> (IF case_name # <<>> THEN case_name \o <<",", " ">> ELSE <<>>)
              \o CiteText(volume, reporter, page)
              \o (IF year # 0 THEN <<" ", "(">> \o Str(year) \o <<")">> ELSE <<>>),
     reporter |-> reporter, volume |-> volume, page |-> page, year |-> year,
     case_name |-> case_name, confidence |-> 10]

\* a citation with no parsed part (a short form, or extract_additional_citations)
BareMention(text, case_name, confidence) ==
    [text |-> text, reporter |-> <<>>, volume |-> 0, page |-> 0, year |-> 0,
     case_name |-> case_name, confidence |-> confidence]

Mentions ==
    {FullMention(name, c[1], <<"U.S.">>, c[2], year) :
        name \in {<<>>, TerryName},
        c \in {<<3, 1>>, <<13, 12>>},
        year \in {0, 1940, 1968}}
    \cup { BareMention(<<"See", " ">> \o TerryName \o <<",", " ">> \o CiteText(3, <<"F.2">>, 1),
                       TerryName, 8),
           BareMention(Words(<<"Id.", "at", "3">>), <<>>, 6),
           BareMention(MappName \o <<",", " ", "Overruled">>, <<>>, 10) }

InitResolve ==
    /\ cases \in ResolverCorpora
    /\ citations = EmptyBag
    /\ request \in
          {[op |-> "validate_citations", cites |-> cites] :
              cites \in SeqsUpTo(Mentions, MaxMentions)}
          \cup {[op |-> "find_case_by_citation", citation |-> CiteText(c[1], <<"U.S.">>, c[2])] :
                  c \in {<<3, 1>>, <<13, 12>>, <<2, 3>>}}
    /\ clients = [started |-> FALSE]
    /\ cache = <<>>
    /\ tables = <<>>
    /\ last = [op |-> "init"]

NextResolve == ValidateCitations \/ FindCaseByCitation

SpecResolve == InitResolve /\ [][NextResolve]_vars

\* the entries whose canonical citation is the mention's volume, reporter, page
CanonicalMatches(corpus, cite) ==
    {id \in DOMAIN corpus :
        corpus[id].reporter_cite = CiteText(cite.volume, cite.reporter, cite.page)}

FullyParsed(cite) == cite.volume # 0 /\ cite.reporter # <<>> /\ cite.page # 0

\* C6: a mention whose volume, reporter and page are all parsed and are the
\* canonical citation of exactly one corpus entry is resolved to that entry,
\* whatever its case name and text are.
C6_UniqueCitationResolves ==
    /\ last.op = "validate_citations" =>
          \A x \in Range(last.validated) \cup Range(last.problematic) :
             (FullyParsed(x.citation)
              /\ Cardinality(CanonicalMatches(cases, x.citation)) = 1)
             => (x.status = "valid" /\ x.found_case \in CanonicalMatches(cases, x.citation))
    /\ last.op = "find_case_by_citation" =>
          LET M == {id \in DOMAIN cases : cases[id].reporter_cite = last.citation}
          IN  Cardinality(M) = 1 => last.found \in M

\* C7: over an empty corpus every mention comes back unresolved, each with a
\* non-empty diagnostic, and nothing comes back matched.
C7_EmptyCorpusResolvesNothing ==
    DOMAIN cases = {} =>
        /\ last.op = "validate_citations" =>
              /\ last.validated = <<>>
              /\ Len(last.problematic) = last.total
              /\ \A x \in Range(last.problematic) :
                    x.status = "warning" /\ x.problem \notin {None, ""}
        /\ last.op = "find_case_by_citation" => last.found = None

\* over the empty corpus, a fully parsed mention with a case name and a
\* recent year was reported with the fallback diagnostic
C7_Witness ==
    /\ DOMAIN cases = {}
    /\ last.op = "validate_citations"
    /\ \E x \in Range(last.problematic) :
          /\ FullyParsed(x.citation) /\ x.citation.case_name # <<>>
          /\ x.problem = "Not found in database"

(***************************************************************************)
(* backend/main.py: reciprocal_rank_fusion.                                *)
(*                                                                         *)
(* A score is an exact fraction [n, d] with d > 0; the code adds floats.   *)
(* A result item is [id, source]; the dictionaries scores and case_map are *)
(* [keys, val]: the keys in insertion order and the value of each key.     *)
(***************************************************************************)
RRF_K == 60
TopFused == 10

Frac(n, d) == [n |-> n, d |-> d]
FracAdd(f, g) == Frac(f.n * g.d + g.n * f.d, f.d * g.d)
FracLess(f, g) == f.n * g.d < g.n * f.d
FracEq(f, g) == f.n * g.d = g.n * f.d

\* the weight one list gives the item at 0-based rank, with the rank counted from 1
RankWeightFromOne(k, rank) == Frac(1, k + rank)

\* 1 / (k + rank + 1)
RankWeight(k, rank) == Frac(1, k + rank + 1)

\* item.get("id") or item.get("case_id")
ItemId(item) == item.id

RECURSIVE AddScores(_, _, _, _)
\* for rank, item in enumerate(list): scores[id] = scores.get(id, 0) + weight
AddScores(scores, list, rank, k) ==
    IF list = <<>> THEN scores
    ELSE LET case_id == ItemId(Head(list))
             old == IF case_id \in DOMAIN scores.val THEN scores.val[case_id] ELSE Frac(0, 1)
             new == FracAdd(old, RankWeight(k, rank))
         IN  AddScores(
                [keys |-> IF case_id \in DOMAIN scores.val THEN scores.keys
                          ELSE Append(scores.keys, case_id),
                 val |-> [x \in DOMAIN scores.val \cup {case_id} |->
                            IF x = case_id THEN new ELSE scores.val[x]]],
                Tail(list), rank + 1, k)

RECURSIVE CaseMap(_, _)
\* case_map: the first item of list1 + list2 with each id
CaseMap(acc, list) ==
    IF list = <<>> THEN acc
    ELSE LET case_id == ItemId(Head(list))
         IN  CaseMap(IF case_id \in DOMAIN acc THEN acc
                     ELSE [x \in DOMAIN acc \cup {case_id} |->
                             IF x = case_id THEN Head(list) ELSE acc[x]],
                     Tail(list))

\* x put into a sequence sorted by descending score, after the keys that
\* score as much or more
InsertDesc(sorted, x, val) ==
    LET before == {i \in DOMAIN sorted : ~FracLess(val[sorted[i]], val[x])}
        n == Cardinality(before)
    IN  SubSeq(sorted, 1, n) \o <<x>> \o SubSeq(sorted, n + 1, Len(sorted))

RECURSIVE SortedDesc(_, _, _)
\* sorted(keys, key=lambda x: scores[x], reverse=True): stable
SortedDesc(acc, keys, val) ==
    IF keys = <<>> THEN acc
    ELSE SortedDesc(InsertDesc(acc, Head(keys), val), Tail(keys), val)

reciprocal_rank_fusion(list1, list2, k) ==
    LET empty == [keys |-> <<>>, val |-> <<>>]
        scores == AddScores(AddScores(empty, list1, 0, k), list2, 0, k)
        case_map == CaseMap(<<>>, list1 \o list2)
        sorted_ids == SortedDesc(<<>>, scores.keys, scores.val)
        top == FirstN(sorted_ids, TopFused)
    IN  [i \in DOMAIN top |->
            [id |-> top[i], source |-> case_map[top[i]].source,
             score |-> scores.val[top[i]]]]

ReciprocalRankFusion ==
    /\ request.op = "reciprocal_rank_fusion"
    /\ last' = [op |-> "reciprocal_rank_fusion",
                results |-> reciprocal_rank_fusion(request.list1, request.list2, RRF_K)]
    /\ UNCHANGED <<cases, citations, request, clients, cache, tables>>

(***************************************************************************)
(* Fusion of two result lists as keyword_search, postgres_search and       *)
(* semantic_search return them: each lists a case at most once.            *)
(***************************************************************************)
MaxHits == 3

HitIds == {"c1", "c2", "c3", "c4"}

\* more cases than a fused answer holds
LongList == <<"f1", "f2", "f3", "f4", "f5", "f6", "f7", "f8", "f9", "f10", "f11">>

Items(ids, source) == [i \in DOMAIN ids |-> [id |-> ids[i], source |-> source]]

ResultLists(source) ==
    {Items(ids, source) :
        ids \in {sq \in SeqsUpTo(HitIds, MaxHits) : Cardinality(Range(sq)) = Len(sq)}
                \cup {LongList}}

InitFusion ==
    /\ cases = GraphCorpus
    /\ citations = EmptyBag
    /\ request \in {[op |-> "reciprocal_rank_fusion", list1 |-> l1, list2 |-> l2] :
                       l1 \in ResultLists("keyword"), l2 \in ResultLists("semantic")}
    /\ clients = [started |-> FALSE]
    /\ cache = <<>>
    /\ tables = <<>>
    /\ last = [op |-> "init"]

NextFusion == ReciprocalRankFusion

SpecFusion == InitFusion /\ [][NextFusion]_vars

\* the 0-based ranks at which a list holds a case
RanksOf(list, id) == {i - 1 : i \in {j \in DOMAIN list : list[j].id = id}}

\* the sum of 1/(k + rank + 1) over the lists that hold the case
FusedScore(id, list1, list2, k) ==
    LET term(list) == IF RanksOf(list, id) = {} THEN Frac(0, 1)
                      ELSE Frac(1, k + (CHOOSE r \in RanksOf(list, id) : TRUE) + 1)
    IN  FracAdd(term(list1), term(list2))

\* C8: every returned case carries the sum of 1/(60 + rank + 1) over the lists
\* that hold it; the cases come back in non-increasing order of that score,
\* each once, and they are the best TopFused of all the cases listed; a case
\* at ranks 0 and 1 of the two lists scores 1/61 + 1/62 and comes before every
\* case that only one list holds.
C8_FusedScoreAndOrder ==
    last.op = "reciprocal_rank_fusion" =>
        LET l1 == request.list1
            l2 == request.list2
            res == last.results
            listed == {x.id : x \in Range(l1) \cup Range(l2)}
            returned == {x.id : x \in Range(res)}
            both == {x.id : x \in Range(l1)} \cap {x.id : x \in Range(l2)}
        IN  /\ \A i \in DOMAIN res :
                  FracEq(res[i].score, FusedScore(res[i].id, l1, l2, 60))
            /\ \A i, j \in DOMAIN res :
                  i < j => /\ ~FracLess(res[i].score, res[j].score)
                           /\ res[i].id # res[j].id
            /\ returned \subseteq listed
            /\ Len(res) = Min(Cardinality(listed), TopFused)
            /\ \A id \in listed \ returned : \A i \in DOMAIN res :
                  ~FracLess(res[i].score, FusedScore(id, l1, l2, 60))
            /\ \A id \in both :
                  RanksOf(l1, id) \cup RanksOf(l2, id) = {0, 1} =>
                     \E i \in DOMAIN res :
                        /\ res[i].id = id
                        /\ FracEq(res[i].score, Frac(61 + 62, 61 * 62))
                        /\ \A j \in DOMAIN res : res[j].id \notin both => i < j

\* two lists that share a case at ranks 0 and 1 were fused, each list also
\* holding a case of its own, and the shared case came first
C8_Witness ==
    /\ last.op = "reciprocal_rank_fusion"
    /\ request.list1 = Items(<<"c1", "c2">>, "keyword")
    /\ request.list2 = Items(<<"c3", "c1">>, "semantic")
    /\ Len(last.results) = 3
    /\ last.results[1].id = "c1"

(***************************************************************************)
(* backend/main.py: check_brief and semantic_search; brief_analyzer.py:    *)
(* analyze_brief, find_missing_authorities and find_similar_cases_ai.      *)
(*                                                                         *)
(* A similarity is in tenths.  A key passage is the similarity its         *)
(* embedding has to each stored embedding; a brief's text is the set of    *)
(* key phrases that occur in it.                                           *)
(***************************************************************************)
SemanticLimit == 5
SimilarArguments == 3
SimilarLimit == 3
SimilarFloor == 7
SuggestedShown == 10

Embeddings == {"e1", "e2"}

\* a row of cases with its embedding and citation_count columns
BriefRow(title, cite, embedding, citation_count) ==
    [title |-> title, decision_date |-> 1, reporter_cite |-> cite, content |-> <<>>,
     cluster_id |-> NULL, embedding |-> embedding, citation_count |-> citation_count]

\* 1 - (embedding <=> $1): NULL for a row without embedding
Similarity(corpus, passage, id) ==
    IF corpus[id].embedding = NULL THEN NULLN ELSE passage[corpus[id].embedding]

\* ORDER BY embedding <=> $1: the orders the rows ids can come in, nearest
\* first, rows without embedding last
NearestFirst(corpus, passage, ids) ==
    {sq \in [1..Cardinality(ids) -> ids] :
        /\ \A i, j \in DOMAIN sq : i # j => sq[i] # sq[j]
        /\ \A i, j \in DOMAIN sq :
              i < j => Similarity(corpus, passage, sq[i]) >= Similarity(corpus, passage, sq[j])}

\* semantic_search: float(row["score"]) raises on a NULL score
semantic_search(corpus, passage, limit) ==
    {[raised |-> \E i \in DOMAIN rows : Similarity(corpus, passage, rows[i]) = NULLN,
      results |-> rows] :
        rows \in {FirstN(sq, limit) : sq \in NearestFirst(corpus, passage, DOMAIN corpus)}}

RECURSIVE SuggestLoop(_, _, _, _)
\* the loop of check_brief over the key passages; acc is [raised, suggested]
SuggestLoop(acc, corpus, cited, passages) ==
    IF passages = <<>> \/ acc.raised THEN {acc}
    ELSE UNION {
            SuggestLoop(
               IF found.raised THEN [acc EXCEPT !.raised = TRUE]
               \* [c["id"] for c in citations] indexes a string
               ELSE IF found.results # <<>> /\ cited # <<>>
               THEN [acc EXCEPT !.raised = TRUE]
               ELSE [acc EXCEPT !.suggested = @ \o found.results],
               corpus, cited, Tail(passages)) :
            found \in semantic_search(corpus, Head(passages), SemanticLimit)}

RECURSIVE NegativeTreatments(_)
\* the loop of check_brief over the citations: the cases found that carry a
\* red or yellow badge
NegativeTreatments(cited) ==
    IF cited = <<>> THEN {<<>>}
    ELSE LET rows == {id \in DOMAIN cases : cases[id].reporter_cite = Head(cited)}
             one == IF rows = {} THEN {<<>>}
                    ELSE UNION {{IF badge \in {"red", "yellow"} THEN <<id>> ELSE <<>> :
                                    badge \in BadgesFor(id)} : id \in rows}
         IN  {x \o rest : x \in one, rest \in NegativeTreatments(Tail(cited))}

CheckBrief ==
    /\ request.op = "check_brief"
    /\ \E negative \in NegativeTreatments(request.citations),
          out \in SuggestLoop([raised |-> FALSE, suggested |-> <<>>], cases,
                              request.citations, request.passages) :
          last' = [op |-> "check_brief", raised |-> out.raised,
                   total_citations |-> Len(request.citations),
                   negative_treatments |-> negative,
                   suggested_cases |-> IF out.raised THEN <<>> ELSE out.suggested]
    /\ UNCHANGED <<cases, citations, request, clients, cache, tables>>

area_keywords ==
    [x \in {"personal jurisdiction", "due process", "summary judgment",
            "qualified immunity", "class action"} |->
        CASE x = "personal jurisdiction" ->
                {"personal jurisdiction", "minimum contacts", "purposeful availment"}
          [] x = "due process" ->
                {"due process", "procedural due process", "substantive due process"}
          [] x = "summary judgment" -> {"summary judgment", "genuine issue", "material fact"}
          [] x = "qualified immunity" ->
                {"qualified immunity", "clearly established", "constitutional violation"}
          [] x = "class action" -> {"class action", "commonality", "typicality", "numerosity"}]

detect_legal_areas(phrases) ==
    {area \in DOMAIN area_keywords : area_keywords[area] \cap phrases # {}}

foundation_cases ==
    [x \in DOMAIN area_keywords |->
        CASE x = "personal jurisdiction" ->
                {Words(<<"International", "Shoe">>), <<"World-Wide", " ", "Volkswagen">>}
          [] x = "due process" ->
                {Words(<<"Mathews", "v.", "Eldridge">>), Words(<<"Goldberg", "v.", "Kelly">>)}
          [] x = "summary judgment" ->
                {<<"Celotex">>, Words(<<"Anderson", "v.", "Liberty", "Lobby">>)}
          [] x = "qualified immunity" ->
                {Words(<<"Harlow", "v.", "Fitzgerald">>), Words(<<"Pearson", "v.", "Callahan">>)}
          [] x = "class action" ->
                {Words(<<"Wal-Mart", "v.", "Dukes">>), Words(<<"Comcast", "v.", "Behrend">>)}]

\* the foundation cases of the areas detected that no citation names, each
\* looked up by name: ORDER BY citation_count DESC LIMIT 1
find_missing_authorities(corpus, phrases, cites) ==
    LET cited_case_names ==
            {IF cites[i].case_name # <<>> THEN cites[i].case_name ELSE cites[i].text :
                i \in DOMAIN cites} \ {<<>>}
        wanted == {name \in UNION {foundation_cases[a] : a \in detect_legal_areas(phrases)} :
                     ~\E cited \in cited_case_names :
                          Contains(LowerText(cited), LowerText(name))}
        rows(name) == {id \in DOMAIN corpus : ILike(corpus[id].title, <<name>>)}
        best(name) == {id \in rows(name) :
                         \A o \in rows(name) :
                            corpus[o].citation_count <= corpus[id].citation_count}
        found == {name \in wanted : rows(name) # {}}
    IN  {Range(f) : f \in {g \in [found -> DOMAIN corpus] : \A name \in found : g[name] \in best(name)}}

RECURSIVE SimilarLoop(_, _, _)
\* the loop of find_similar_cases_ai over the arguments: the rows that pass
\* the similarity floor, in the order found
SimilarLoop(suggested, corpus, arguments) ==
    IF arguments = <<>> THEN {suggested}
    ELSE LET embedded == {id \in DOMAIN corpus : corpus[id].embedding # NULL}
             arg == Head(arguments)
             keep(rows) == SelectSeq(rows, LAMBDA id : Similarity(corpus, arg, id) > SimilarFloor)
         IN  UNION {SimilarLoop(suggested \o keep(FirstN(sq, SimilarLimit)), corpus,
                                Tail(arguments)) :
                       sq \in NearestFirst(corpus, arg, embedded)}

RECURSIVE Unique(_, _)
\* the first occurrence of every id
Unique(seen, sq) ==
    IF sq = <<>> THEN <<>>
    ELSE IF Head(sq) \in seen THEN Unique(seen, Tail(sq))
    ELSE <<Head(sq)>> \o Unique(seen \cup {Head(sq)}, Tail(sq))

find_similar_cases_ai(corpus, arguments, openai_api_key) ==
    IF ~openai_api_key \/ arguments = <<>> THEN {<<>>}
    ELSE {FirstN(Unique({}, suggested), SuggestedShown) :
             suggested \in SimilarLoop(<<>>, corpus, FirstN(arguments, SimilarArguments))}

AnalyzeBrief ==
    /\ request.op = "analyze_brief"
    /\ \E outcome \in ValidateAll(cases, request.citations),
          missing \in find_missing_authorities(cases, request.phrases, request.citations),
          suggested \in (IF request.use_ai /\ request.openai_api_key
                            /\ request.arguments # <<>>
                         THEN find_similar_cases_ai(cases, request.arguments,
                                                    request.openai_api_key)
                         ELSE {<<>>}) :
          last' = [op |-> "analyze_brief", raised |-> FALSE,
                   total_citations |-> Len(request.citations),
                   validated |-> Select(outcome, "valid"),
                   problematic |-> Select(outcome, "warning"),
                   missing_authorities |-> missing,
                   suggested_cases |-> suggested]
    /\ UNCHANGED <<cases, citations, request, clients, cache, tables>>

(***************************************************************************)
(* Briefs over a small corpus: the citations and key passages are those    *)
(* extract_citations and extract_key_arguments took from the text.         *)
(***************************************************************************)
MaxBriefCites == 1
MaxPassages == 1

CelotexName == Words(<<"Celotex", "Corp.", "v.", "Catrett">>)

BriefEntries ==
    { BriefRow(CelotexName, CiteText(477, <<"U.S.">>, 317), "e1", 0),
      BriefRow(TerryName, CiteText(3, <<"U.S.">>, 1), "e2", 0),
      BriefRow(MappName, CiteText(13, <<"U.S.">>, 12), NULL, 0) }

BriefCorpora == UNION {[ids -> BriefEntries] : ids \in SUBSET {"c1", "c2"}}

Passages == [Embeddings -> {SimilarFloor, 9}]

BriefMentions ==
    { FullMention(<<>>, 477, <<"U.S.">>, 317, 0),
      FullMention(CelotexName, 477, <<"U.S.">>, 317, 1986),
      FullMention(TerryName, 3, <<"U.S.">>, 1, 1968) }

InitBrief ==
    /\ cases \in BriefCorpora
    /\ citations \in
          {tbl \in {EmptyBag, SetToBag({CitationRow("c2", "c1", "overruled", 9)})} :
              \A r \in BagToSet(tbl) : ForeignKeysHold(cases, r)}
    /\ request \in
          {[op |-> "check_brief", citations |-> c, passages |-> p] :
              c \in SeqsUpTo({CiteText(477, <<"U.S.">>, 317), CiteText(3, <<"U.S.">>, 1)},
                             MaxBriefCites),
              p \in SeqsUpTo(Passages, MaxPassages)}
          \cup
          {[op |-> "analyze_brief", citations |-> c, arguments |-> p, phrases |-> ph,
            use_ai |-> ai, openai_api_key |-> key] :
              c \in SeqsUpTo(BriefMentions, MaxBriefCites),
              p \in SeqsUpTo(Passages, MaxPassages),
              ph \in SUBSET {"summary judgment"},
              ai \in BOOLEAN, key \in BOOLEAN}
    /\ clients = [started |-> FALSE]
    /\ cache = <<>>
    /\ tables = <<>>
    /\ last = [op |-> "init"]

NextBrief == CheckBrief \/ AnalyzeBrief

SpecBrief == InitBrief /\ [][NextBrief]_vars

\* C9: the cases suggested for a brief never include a case the brief already
\* cites and the corpus resolves, and producing them does not raise.
C9_SuggestionsExcludeCited ==
    /\ last.op = "check_brief" =>
          /\ ~last.raised
          /\ \A id \in Range(last.suggested_cases) :
                cases[id].reporter_cite \notin Range(request.citations)
    /\ last.op = "analyze_brief" =>
          /\ ~last.raised
          /\ (Range(last.suggested_cases) \cup last.missing_authorities)
                \cap {x.found_case : x \in Range(last.validated)} = {}

(***************************************************************************)
(* The import paths of a case record: workers/etl.py process_case,         *)
(* backend/webhooks.py process_new_cases, workers/bulk_loader.py           *)
(* process_opinion_chunk.  Every record here carries an id; a text column  *)
(* that is NULL or empty is <<>>; the texts hold no NUL character.         *)
(***************************************************************************)
StorageLimit == 1000000

\* INSERT INTO cases ... ON CONFLICT (id) DO UPDATE SET content = EXCLUDED.content
UpsertCase(corpus, id, title, content) ==
    [x \in DOMAIN corpus \cup {id} |->
        IF x # id THEN corpus[x]
        ELSE IF id \in DOMAIN corpus THEN [corpus[id] EXCEPT !.content = content]
        ELSE CaseRow(title, NULLN, <<>>, content, NULL)]

\* INSERT INTO cases ... ON CONFLICT (id) DO NOTHING
InsertCase(corpus, id, title, content) ==
    IF id \in DOMAIN corpus THEN corpus ELSE UpsertCase(corpus, id, title, content)

RECURSIVE AllWhitespace(_, _)
\* clean_text(content, ["all_whitespace", "underscores"]): every run of
\* whitespace becomes one space
AllWhitespace(t, gap) ==
    IF t = <<>> THEN <<>>
    ELSE IF Head(t) = " " THEN (IF gap THEN <<>> ELSE <<" ">>) \o AllWhitespace(Tail(t), TRUE)
    ELSE <<Head(t)>> \o AllWhitespace(Tail(t), FALSE)

\* process_case of the ETL pipeline: a case already stored is skipped before
\* anything is read from the record
etl_process_case(corpus, case_data) ==
    IF case_data.id \in DOMAIN corpus THEN corpus
    ELSE UpsertCase(corpus, case_data.id, case_data.case_name,
                    AllWhitespace(case_data.text, FALSE))

EtlProcessCase(case_data) ==
    /\ cases' = etl_process_case(cases, case_data)
    /\ last' = [op |-> "process_case", batch |-> <<case_data>>,
                skipped |-> IF case_data.id \in DOMAIN cases THEN 1 ELSE 0]
    \* process_citation stores nothing: resolve_citation finds no target
    /\ UNCHANGED <<citations, request, clients, cache, tables>>

RECURSIVE process_new_cases(_, _, _)
\* the loop over the results of a webhook event, inside one try: the
\* outcomes are the corpora it can leave (an INSERT that raises ends the
\* loop) and how many results the loop reached
process_new_cases(corpus, results, reached) ==
    IF results = <<>> THEN {[corpus |-> corpus, reached |-> reached]}
    ELSE LET result == Head(results)
         IN  IF result.id \in DOMAIN corpus
             THEN process_new_cases(corpus, Tail(results), reached + 1)
             ELSE {[corpus |-> corpus, reached |-> reached + 1]} \cup
                  process_new_cases(InsertCase(corpus, result.id, result.case_name, <<>>),
                                    Tail(results), reached + 1)

ProcessNewCases(results) ==
    /\ \E out \in process_new_cases(cases, results, 0) :
          /\ cases' = out.corpus
          /\ last' = [op |-> "process_new_cases", batch |-> results,
                      skipped |-> Cardinality({i \in DOMAIN results :
                                                  results[i].id \in DOMAIN cases}),
                      reached |-> out.reached]
    /\ UNCHANGED <<citations, request, clients, cache, tables>>

RECURSIVE SplitJoin(_, _, _)
\* " ".join(text.split())
SplitJoin(t, out, gap) ==
    IF t = <<>> THEN out
    ELSE IF Head(t) = " " THEN SplitJoin(Tail(t), out, TRUE)
    ELSE SplitJoin(Tail(t),
                   out \o (IF gap /\ out # <<>> THEN <<" ">> ELSE <<>>) \o <<Head(t)>>,
                   FALSE)

\* clean_text of the bulk loader
clean_text(text) ==
    IF text = <<>> THEN <<>> ELSE FirstN(SplitJoin(text, <<>>, FALSE), StorageLimit)

RECURSIVE process_opinion_chunk(_, _)
process_opinion_chunk(corpus, df) ==
    IF df = <<>> THEN corpus
    ELSE LET row == Head(df)
             content == clean_text(row.text)
         IN  process_opinion_chunk(
                IF content = <<>> THEN corpus
                ELSE UpsertCase(corpus, row.id, row.case_name, content),
                Tail(df))

ProcessOpinionChunk(df) ==
    /\ cases' = process_opinion_chunk(cases, df)
    /\ last' = [op |-> "process_opinion_chunk", batch |-> df,
                skipped |-> Cardinality({i \in DOMAIN df : clean_text(df[i].text) = <<>>})]
    /\ UNCHANGED <<citations, request, clients, cache, tables>>

(***************************************************************************)
(* Imports into an empty corpus, of records for two ids.                   *)
(***************************************************************************)
ImportIds == {"c1", "c2"}

ImportTexts ==
    {<<>>, <<"first">>, <<" ", "second", " ", " ", "text">>}

CaseRecords == [id : ImportIds, case_name : {TerryName, MappName}, text : ImportTexts]

InitImport ==
    /\ cases = <<>>
    /\ citations = EmptyBag
    /\ request = [op |-> None]
    /\ clients = [started |-> FALSE]
    /\ cache = <<>>
    /\ tables = <<>>
    /\ last = [op |-> "init"]

NextImport ==
    \/ \E case_data \in CaseRecords : EtlProcessCase(case_data)
    \/ \E results \in SeqsUpTo(CaseRecords, MaxBatch) : ProcessNewCases(results)
    \/ \E df \in SeqsUpTo(CaseRecords, MaxBatch) : ProcessOpinionChunk(df)

SpecImport == InitImport /\ [][NextImport]_vars

\* the last record of a batch that carries the id
LastRecord(batch, id) ==
    batch[CHOOSE i \in DOMAIN batch :
             /\ batch[i].id = id
             /\ \A j \in DOMAIN batch : batch[j].id = id => j <= i]

\* C10: when a record is imported whose id the corpus already holds, the
\* corpus afterwards holds that id once, with what the record brings: its
\* text (whitespace normalised) on the ETL and bulk paths, its case name on
\* the webhook path, which carries no text.
C10_SecondImportWins ==
    [][\A id \in DOMAIN cases :
          (/\ last'.op \in {"process_case", "process_new_cases", "process_opinion_chunk"}
           /\ \E i \in DOMAIN last'.batch : last'.batch[i].id = id
           /\ LastRecord(last'.batch, id).text # <<>>)
          => /\ id \in DOMAIN cases'
             /\ last'.op = "process_case" =>
                   cases'[id].content = AllWhitespace(LastRecord(last'.batch, id).text, FALSE)
             /\ last'.op = "process_new_cases" =>
                   cases'[id].title = LastRecord(last'.batch, id).case_name
             /\ last'.op = "process_opinion_chunk" =>
                   cases'[id].content = clean_text(LastRecord(last'.batch, id).text)]_vars

(***************************************************************************)
(* The citator while edges keep arriving: the table holds a treatment edge *)
(* of c3 on c1 or none, and quick_import's import_citations adds edges of  *)
(* c2 to c1 up to just past the citator's row limit.                       *)
(***************************************************************************)
TreatmentEdges ==
    {CitationRow("c3", "c1", signal, NULLN) : signal \in {"overruled", "criticized", "followed"}}

ArrivingEdges == {[citing_opinion |-> "c2", cited_opinion |-> "c1"]}

\* import_citations on a table of any size below the cap of this specification
QuickImportMore(results) ==
    /\ BagCardinality(citations) + Len(results) <= CitatorLimit + MaxBatch
    /\ citations' = import_citations(citations, cases, results).tbl
    /\ last' = [op |-> "import_citations", results |-> results,
                raised |-> import_citations(citations, cases, results).raised,
                inserted |-> BagCardinality(citations') - BagCardinality(citations)]
    /\ UNCHANGED <<cases, request, clients, cache, tables>>

InitGrowth ==
    /\ cases = CitatorCorpus
    /\ \E light \in {{}} \cup {{r} : r \in TreatmentEdges} :
          citations = SetToBag(light)
    /\ request = [op |-> None]
    /\ clients = [started |-> FALSE]
    /\ cache = <<>>
    /\ tables = <<>>
    /\ last = [op |-> "init"]

NextGrowth ==
    \/ \E results \in SeqsUpTo(ArrivingEdges, MaxBatch) : QuickImportMore(results)
    \/ \E case_id \in {"c1", "c2"} : GetCitator(case_id)

SpecGrowth == InitGrowth /\ [][NextGrowth]_vars

\* C11: a step that only inserts edges leaves the badge of every case with a
\* stored overruled edge red, and moves no badge from red to yellow or green
\* nor from yellow to green.
C11_BadgeMonotonic ==
    [][\A x \in CaseIds :
          (citations \sqsubseteq citations') =>
             /\ (\E r \in BagToSet(citations) : r.target = x /\ r.signal = "overruled")
                   => BadgesOver(citations', cases', x) = {"red"}
             /\ BadgesOver(citations, cases, x) = {"red"}
                   => BadgesOver(citations', cases', x) = {"red"}
             /\ "green" \notin BadgesOver(citations, cases, x)
                   => "green" \notin BadgesOver(citations', cases', x)]_vars

(***************************************************************************)
(* Concurrent ingestion of one ordered pair (c2 cites c1): each caller is  *)
(* in process_citation of the ETL pipeline or in process_case of           *)
(* extract_citations with one matched cite.  A caller yields at each       *)
(* await; one SQL statement is one step.  The calls in flight are kept in  *)
(* request.calls, each with its position pc.                               *)
(***************************************************************************)
Callers == 2

UpsertCalls ==
    {[path |-> "etl", pc |-> "start", citation |-> c, target |-> None] :
        c \in {x \in EtlCitations : x.cites = "c1" /\ Cardinality(x.text) <= 1}}
    \cup {[path |-> "extract", pc |-> "start",
           content |-> [len |-> MinContentLen,
                        cites |-> <<[full |-> TRUE, matched_id |-> "c1"]>>],
           found |-> <<>>]}

SetCall(w, call) == [request EXCEPT !.calls[w] = call]

\* target_case_id = await self.resolve_citation(citation)
EtlResolve(w) ==
    LET call == request.calls[w]
    IN  /\ call.path = "etl" /\ call.pc = "start"
        /\ request' = SetCall(w, [call EXCEPT !.pc = "resolved",
                                               !.target = resolve_citation(call.citation)])
        /\ last' = [op |-> "upsert_edge", caller |-> w, step |-> "resolve_citation"]
        /\ UNCHANGED <<cases, citations, clients, cache, tables>>

\* if target_case_id: await conn.execute(INSERT ... ON CONFLICT DO NOTHING)
EtlInsert(w) ==
    LET call == request.calls[w]
    IN  /\ call.path = "etl" /\ call.pc = "resolved"
        /\ citations' =
              IF call.target # None
              THEN InsertCitation(citations, cases,
                       CitationRow("c2", call.target, detect_signal(call.citation), NULLN)).tbl
              ELSE citations
        /\ request' = SetCall(w, [call EXCEPT !.pc = "done"])
        /\ last' = [op |-> "upsert_edge", caller |-> w, step |-> "insert"]
        /\ UNCHANGED <<cases, clients, cache, tables>>

\* citations = await self.extract_citations_from_case(case_id, content)
ExtractFind(w) ==
    LET call == request.calls[w]
    IN  /\ call.path = "extract" /\ call.pc = "start"
        /\ request' = SetCall(w, [call EXCEPT
                         !.pc = IF call.content.len < MinContentLen THEN "done" ELSE "found",
                         !.found = extract_citations_from_case("c2", call.content.cites)])
        /\ last' = [op |-> "upsert_edge", caller |-> w, step |-> "extract_citations_from_case"]
        /\ UNCHANGED <<cases, citations, clients, cache, tables>>

\* await self.conn.execute(INSERT ... ON CONFLICT (pair) DO UPDATE ...), once
\* for each cite found
ExtractStore(w) ==
    LET call == request.calls[w]
    IN  /\ call.path = "extract" /\ call.pc = "found"
        /\ IF call.found = <<>>
           THEN /\ citations' = citations
                /\ request' = SetCall(w, [call EXCEPT !.pc = "done"])
           ELSE /\ citations' = StoreCitations(citations, cases, "c2", <<Head(call.found)>>)
                /\ request' = SetCall(w, [call EXCEPT !.found = Tail(call.found),
                                                       !.pc = IF Tail(call.found) = <<>>
                                                              THEN "done" ELSE "found"])
        /\ last' = [op |-> "upsert_edge", caller |-> w, step |-> "store"]
        /\ UNCHANGED <<cases, clients, cache, tables>>

InitUpsert ==
    /\ cases = GraphCorpus
    /\ citations \in {EmptyBag, SetToBag({CitationRow("c2", "c1", NULL, 5)})}
    /\ request \in {[op |-> "upsert_edge", calls |-> calls] :
                       calls \in [1..Callers -> UpsertCalls]}
    /\ clients = [started |-> FALSE]
    /\ cache = <<>>
    /\ tables = <<>>
    /\ last = [op |-> "init"]

NextUpsert ==
    \E w \in 1..Callers : EtlResolve(w) \/ EtlInsert(w) \/ ExtractFind(w) \/ ExtractStore(w)

SpecUpsert == InitUpsert /\ [][NextUpsert]_vars

\* C12: when the concurrent calls for the pair (c2, c1) have all returned,
\* the table holds exactly one row for the pair; its confidence is the
\* greatest that a call or the row before brought, and its signal is
\* overruled when a call's citation says so.
C12_ConcurrentUpsertMerges ==
    (request.op = "upsert_edge" /\ \A w \in DOMAIN request.calls : request.calls[w].pc = "done")
    => LET rows == {r \in BagToSet(citations) : r.source = "c2" /\ r.target = "c1"}
           calls == Range(request.calls)
       IN  /\ BagSum(citations, rows) = 1
           /\ \A r \in rows :
                 /\ (\E c \in calls : c.path = "extract") => r.confidence >= 9
                 /\ (\E c \in calls : c.path = "etl" /\ detect_signal(c.citation) = "overruled")
                       => r.signal = "overruled"

(***************************************************************************)
(* Resolution over corpora in which several entries match one mention:     *)
(* the entries differ in citation_count, and c1 was inserted before c2.    *)
(***************************************************************************)
TieEntries ==
    { BriefRow(TerryName, CiteText(3, <<"U.S.">>, 1), NULL, 0),
      BriefRow(TerryName, CiteText(3, <<"U.S.">>, 1), NULL, 5),
      BriefRow(MappName, CiteText(13, <<"U.S.">>, 12), NULL, 5) }

TieCorpora == UNION {[ids -> TieEntries] : ids \in SUBSET {"c1", "c2"}}

TieMentions ==
    { FullMention(TerryName, 3, <<"U.S.">>, 1, 1968),
      FullMention(<<>>, 3, <<"U.S.">>, 1, 0) }

\* created_at of the rows: the order in which the corpus was loaded
InsertionRank(id) == CASE id = "c1" -> 1 [] id = "c2" -> 2 [] id = "c3" -> 3

InitTies ==
    /\ cases \in TieCorpora
    /\ citations = EmptyBag
    /\ request \in {[op |-> "validate_citations", cites |-> cites] :
                       cites \in SeqsUpTo(TieMentions, MaxMentions)}
    /\ clients = [started |-> FALSE]
    /\ cache = <<>>
    /\ tables = <<>>
    /\ last = [op |-> "init"]

NextTies == ValidateCitations

SpecTies == InitTies /\ [][NextTies]_vars

\* among the matching entries, the one with the highest citation count, and
\* of those the earliest inserted
Preferred(corpus, S) ==
    CHOOSE id \in S :
       \A o \in S \ {id} :
          \/ corpus[o].citation_count < corpus[id].citation_count
          \/ /\ corpus[o].citation_count = corpus[id].citation_count
             /\ InsertionRank(id) < InsertionRank(o)

\* C13: over a fixed corpus a mention always resolves to the same entry: of
\* the entries that match it, the one with the highest citation count, and
\* among equals the earliest inserted; the same mention twice in one brief
\* gets the same entry both times.
C13_ResolutionDeterministic ==
    last.op = "validate_citations" =>
        /\ \A x \in Range(last.validated) :
              x.found_case = Preferred(cases, FoundRows(cases, x.citation))
        /\ \A x, y \in Range(last.validated) :
              x.citation = y.citation => x.found_case = y.found_case

(***************************************************************************)
(* backend/main.py: startup, search_cases, keyword_search, postgres_search *)
(* and generate_embedding.                                                 *)
(*                                                                         *)
(* A query text is a word and the similarity its embedding has to each     *)
(* stored embedding.  The search index mirrors the corpus: keyword_search  *)
(* and postgres_search rank the same rows, title matches above content     *)
(* matches.  A result is [id, source], with a score once fused.  A cache   *)
(* entry is the JSON text of the results, kept here as the results.        *)
(***************************************************************************)
CacheTtl == 300
TitleWeight == 10

SearchRow(title, court_id, date, embedding) ==
    [title |-> title, decision_date |-> date, reporter_cite |-> <<>>, content |-> <<>>,
     cluster_id |-> NULL, court_id |-> court_id, embedding |-> embedding,
     citation_count |-> 0]

\* the filters of a query: jurisdiction, date_from, date_to
Passes(row, query) ==
    /\ query.jurisdiction = None \/ row.court_id = query.jurisdiction
    /\ query.date_from = NULLN \/ (row.decision_date # NULLN /\ row.decision_date >= query.date_from)
    /\ query.date_to = NULLN \/ (row.decision_date # NULLN /\ row.decision_date <= query.date_to)

Filtered(corpus, query) ==
    LET ids == {id \in DOMAIN corpus : Passes(corpus[id], query)}
    IN  [id \in ids |-> corpus[id]]

\* the relevance both lexical backends rank by
LexicalScore(row, query) ==
    (IF ILike(row.title, <<query.query.word>>) THEN TitleWeight ELSE 0)
    + (IF ILike(row.content, <<query.query.word>>) THEN 1 ELSE 0)

\* the lists a lexical backend can return for the rows ids: ORDER BY score
\* DESC LIMIT limit for the database, size: limit for the index
Ranked(corpus, query, ids) ==
    LET orders == {sq \in [1..Cardinality(ids) -> ids] :
                     /\ \A i, j \in DOMAIN sq : i # j => sq[i] # sq[j]
                     /\ \A i, j \in DOMAIN sq :
                           i < j => LexicalScore(corpus[sq[i]], query)
                                       >= LexicalScore(corpus[sq[j]], query)}
    IN  {Items(FirstN(sq, query.limit), "keyword") : sq \in orders}

\* keyword_search: the filters are clauses of the bool query
keyword_search(corpus, query) ==
    Ranked(corpus, query,
           {id \in DOMAIN corpus : /\ LexicalScore(corpus[id], query) > 0
                                   /\ Passes(corpus[id], query)})

\* postgres_search: WHERE title @@ q OR content @@ q OR title ILIKE $2 AND
\* filters; AND binds before OR, so the filters go with the ILIKE alone
postgres_search(corpus, query) ==
    Ranked(corpus, query,
           {id \in DOMAIN corpus :
               \/ ILike(corpus[id].title, <<query.query.word>>)
               \/ ILike(corpus[id].content, <<query.query.word>>)
               \/ (ILike(corpus[id].title, <<query.query.word>>) /\ Passes(corpus[id], query))})

\* the lexical part of search_cases: the index if there is a client for it
LexicalHits(corpus, cl, query) ==
    IF cl.osearch_client THEN keyword_search(corpus, query) ELSE postgres_search(corpus, query)

\* semantic_search with the filters of the query; raised when the embedding
\* step fails or a row comes back without score
SemanticHits(corpus, query, embedding_fails) ==
    IF embedding_fails THEN {[raised |-> TRUE, results |-> <<>>]}
    ELSE {[raised |-> found.raised,
           results |-> IF found.raised THEN <<>> ELSE Items(found.results, "semantic")] :
             found \in semantic_search(Filtered(corpus, query), query.query.sim, query.limit)}

\* a key that leaves the limit out
CacheKeyWithoutLimit(query) ==
    <<"search:", query.date_from, query.date_to, query.jurisdiction,
      query.query, query.search_type>>

\* cache_key = f"search:{json.dumps(query.dict(), sort_keys=True)}": the
\* fields of the query in the order of their names
CacheKey(query) ==
    <<"search:", query.date_from, query.date_to, query.jurisdiction, query.limit,
      query.query, query.search_type>>

\* json.dumps(results) and json.loads(cached)
json_dumps(results) == <<"json", results>>
json_loads(text) == text[2]

\* search_cases without the try around semantic_search
ComputedSemanticUnguarded(corpus, cl, query, embedding_fails, index_fails) ==
    LET lexical == query.search_type \in {"hybrid", "keyword"}
        semantic == query.search_type \in {"hybrid", "semantic"} /\ cl.openai_api_key
    IN  {[raised |-> sem.raised \/ (lexical /\ cl.osearch_client /\ index_fails),
          results |-> IF sem.raised THEN <<>> ELSE kw \o sem.results] :
            kw \in (IF lexical THEN LexicalHits(corpus, cl, query) ELSE {<<>>}),
            sem \in (IF semantic THEN SemanticHits(corpus, query, embedding_fails)
                     ELSE {[raised |-> FALSE, results |-> <<>>]})}

\* the answers search_cases can compute for a query when nothing is cached:
\* [raised, results]
Computed(corpus, cl, query, embedding_fails, index_fails) ==
    LET lexical == query.search_type \in {"hybrid", "keyword"}
        semantic == query.search_type \in {"hybrid", "semantic"} /\ cl.openai_api_key
    IN  IF lexical /\ cl.osearch_client /\ index_fails
        THEN {[raised |-> TRUE, results |-> <<>>]}
        ELSE {[raised |-> FALSE,
               results |->
                  IF query.search_type = "hybrid" /\ sem.results # <<>>
                  THEN reciprocal_rank_fusion(kw, sem.results, RRF_K)
                  ELSE kw \o sem.results] :
                kw \in (IF lexical THEN LexicalHits(corpus, cl, query) ELSE {<<>>}),
                sem \in (IF semantic THEN SemanticHits(corpus, query, embedding_fails)
                         ELSE {[raised |-> FALSE, results |-> <<>>]})}

\* search_cases without the try around the cache read and the cache write
search_cases_cache_unguarded(corpus, cl, store, query, env) ==
    LET cache_key == CacheKey(query)
    IN  IF cl.redis_client /\ env.read_fails
        THEN {[raised |-> TRUE, results |-> <<>>, cache |-> store, from_cache |-> FALSE,
               served |-> <<>>]}
        ELSE IF cl.redis_client /\ cache_key \in DOMAIN store
        THEN {[raised |-> FALSE, results |-> json_loads(store[cache_key].value),
               cache |-> store, from_cache |-> TRUE, served |-> <<store[cache_key]>>]}
        ELSE {[raised |-> c.raised \/ (cl.redis_client /\ env.write_fails),
               results |-> IF cl.redis_client /\ env.write_fails THEN <<>> ELSE c.results,
               cache |-> store, from_cache |-> FALSE, served |-> <<>>] :
                c \in Computed(corpus, cl, query, env.embedding_fails, env.index_fails)}

\* search_cases: what one call can return and leave in the cache,
\* [raised, results, cache, from_cache, served].  env says what fails during the
\* call: the embedding request, the index query, the cache read, the cache
\* write.  An entry keeps, beside the stored text and its lifetime, the
\* query of the call that stored it, what that call returned and whether
\* the embedding step failed during it.
search_cases(corpus, cl, store, query, env) ==
    LET cache_key == CacheKey(query)
        cached == cl.redis_client /\ ~env.read_fails /\ cache_key \in DOMAIN store
    IN  IF cached
        THEN {[raised |-> FALSE, results |-> json_loads(store[cache_key].value),
               cache |-> store, from_cache |-> TRUE, served |-> <<store[cache_key]>>]}
        ELSE {[raised |-> c.raised, results |-> c.results,
               cache |->
                  IF cl.redis_client /\ ~c.raised /\ ~env.write_fails
                  THEN [x \in DOMAIN store \cup {cache_key} |->
                          IF x = cache_key
                          THEN [value |-> json_dumps(c.results), ex |-> CacheTtl,
                                by |-> query, returned |-> c.results,
                                degraded |-> env.embedding_fails]
                          ELSE store[x]]
                  ELSE store,
               from_cache |-> FALSE, served |-> <<>>] :
                c \in Computed(corpus, cl, query, env.embedding_fails, env.index_fails)}

\* startup: each optional client is there when its URL is configured and
\* the connection succeeds; request.config is the environment of the process
Startup ==
    /\ ~clients.started
    /\ \E opensearch_up, redis_up \in BOOLEAN :
          clients' = [started |-> TRUE,
                      osearch_client |-> request.config.OPENSEARCH_URL /\ opensearch_up,
                      redis_client |-> request.config.REDIS_URL /\ redis_up,
                      openai_api_key |-> request.config.OPENAI_API_KEY]
    /\ UNCHANGED <<cases, citations, request, cache, last, tables>>

MaxCached == 2

\* what can fail during a call, given the clients it uses and the services
\* that are unreliable
Environments(cl, query, faults) ==
    {env \in [embedding_fails : BOOLEAN, index_fails : BOOLEAN,
              read_fails : BOOLEAN, write_fails : BOOLEAN] :
        /\ env.embedding_fails => /\ "embedding" \in faults
                                  /\ cl.openai_api_key /\ query.search_type # "keyword"
        /\ env.index_fails => /\ "index" \in faults
                              /\ cl.osearch_client /\ query.search_type # "semantic"
        /\ env.read_fails => "cache" \in faults /\ cl.redis_client
        /\ env.write_fails => "cache" \in faults /\ cl.redis_client}

SearchCases(query) ==
    /\ clients.started
    /\ \/ ~clients.redis_client
       \/ CacheKey(query) \in DOMAIN cache
       \/ Cardinality(DOMAIN cache) < MaxCached
    /\ \E env \in Environments(clients, query, request.faults) :
          \E out \in search_cases(cases, clients, cache, query, env) :
             /\ cache' = out.cache
             /\ last' = [op |-> "search_cases", query |-> query, env |-> env,
                         raised |-> out.raised, results |-> out.results,
                         from_cache |-> out.from_cache, served |-> out.served]
    /\ UNCHANGED <<cases, citations, request, clients, tables>>

\* the lifetime of an entry runs out
CacheExpire(cache_key) ==
    /\ cache_key \in DOMAIN cache
    /\ cache' = [x \in DOMAIN cache \ {cache_key} |-> cache[x]]
    /\ UNCHANGED <<cases, citations, request, clients, last, tables>>

(***************************************************************************)
(* The searches: a corpus of two cases and a query with one variant for    *)
(* each of its fields.                                                     *)
(***************************************************************************)
SearchCorpus ==
    [id \in {"c1", "c2"} |->
        IF id = "c1" THEN SearchRow(TerryName, "oh", 1, "e1")
        ELSE SearchRow(MappName, "us", 2, "e2")]

\* a query text: its word and how similar its embedding is to each stored
\* embedding, in tenths: well above the floor for near, below it otherwise
QueryText(word, near) ==
    [word |-> <<word>>,
     sim |-> [e \in Embeddings |-> IF e = near THEN SimilarFloor + 2 ELSE SimilarFloor - 1]]

BaseQuery ==
    [query |-> QueryText("Terry", "e2"), jurisdiction |-> None, date_from |-> NULLN,
     date_to |-> NULLN, limit |-> 10, search_type |-> "hybrid"]

Queries ==
    {BaseQuery,
     [BaseQuery EXCEPT !.query = QueryText("Ohio", "e2")],
     [BaseQuery EXCEPT !.jurisdiction = "oh"],
     [BaseQuery EXCEPT !.date_from = 2],
     [BaseQuery EXCEPT !.date_to = 1],
     [BaseQuery EXCEPT !.limit = 1],
     [BaseQuery EXCEPT !.search_type = "keyword"],
     [BaseQuery EXCEPT !.search_type = "semantic"]}

\* a deployment without cache, with an unreliable embedding service and index
InitSearch ==
    /\ cases = SearchCorpus
    /\ citations = EmptyBag
    /\ request \in [op : {"search"},
                    config : [OPENSEARCH_URL : BOOLEAN, REDIS_URL : {FALSE},
                              OPENAI_API_KEY : BOOLEAN],
                    faults : {{"embedding", "index"}}]
    /\ clients = [started |-> FALSE, osearch_client |-> FALSE, redis_client |-> FALSE,
                  openai_api_key |-> FALSE]
    /\ cache = <<>>
    /\ tables = <<>>
    /\ last = [op |-> "init"]

NextSearch ==
    \/ Startup
    \/ \E query \in Queries : SearchCases(query)

SpecSearch == InitSearch /\ [][NextSearch]_vars

\* a deployment with the relational search, with or without a cache that is
\* unreliable
InitCache ==
    /\ cases = SearchCorpus
    /\ citations = EmptyBag
    /\ request \in [op : {"search"},
                    config : [OPENSEARCH_URL : {FALSE}, REDIS_URL : BOOLEAN,
                              OPENAI_API_KEY : {TRUE}],
                    faults : {{"cache"}}]
    /\ clients = [started |-> FALSE, osearch_client |-> FALSE, redis_client |-> FALSE,
                  openai_api_key |-> FALSE]
    /\ cache = <<>>
    /\ tables = <<>>
    /\ last = [op |-> "init"]

NextCache ==
    \/ Startup
    \/ \E query \in Queries : SearchCases(query)
    \/ \E cache_key \in DOMAIN cache : CacheExpire(cache_key)

SpecCache == InitCache /\ [][NextCache]_vars

(***************************************************************************)
(* C14: when the embedding step of a hybrid search fails, or there is no   *)
(* API key for it, a search whose lexical backend answers does not raise   *)
(* and returns what the lexical backend returned.                          *)
(***************************************************************************)
Searched == last.op = "search_cases" /\ ~last.from_cache

C15_IndexFailureFallsBack ==
    (/\ Searched
     /\ last.query.search_type \in {"keyword", "hybrid"}
     /\ ~clients.osearch_client \/ last.env.index_fails)
    => /\ ~last.raised
       /\ last.query.search_type = "keyword"
             => last.results \in postgres_search(cases, last.query)

(***************************************************************************)
(* C16: a hybrid search that fuses two lists returns exactly               *)
(* min(limit, number of distinct fused candidates) results.                *)
(***************************************************************************)
Fused ==
    /\ Searched
    /\ ~last.raised
    /\ last.query.search_type = "hybrid"
    /\ \E i \in DOMAIN last.results : last.results[i].source = "semantic"

C16_FusedListHonoursLimit ==
    Fused =>
        \E kw \in LexicalHits(cases, clients, last.query) :
           \E sem \in SemanticHits(cases, last.query, FALSE) :
              /\ ~sem.raised
              /\ Len(last.results)
                    = Min(last.query.limit,
                          Cardinality({kw[i].id : i \in DOMAIN kw}
                                         \cup {sem.results[i].id : i \in DOMAIN sem.results}))

(***************************************************************************)
(* C17: a search answered from the cache returns what the call that        *)
(* stored the entry returned, and that call had the same query text,       *)
(* jurisdiction, date filters, limit and mode.                             *)
(***************************************************************************)
C17_CacheHitMatchesPopulatingCall ==
    (last.op = "search_cases" /\ last.from_cache)
    => /\ last.served # <<>>
       /\ last.results = last.served[1].returned
       /\ last.served[1].by.query = last.query.query
       /\ last.served[1].by.jurisdiction = last.query.jurisdiction
       /\ last.served[1].by.date_from = last.query.date_from
       /\ last.served[1].by.date_to = last.query.date_to
       /\ last.served[1].by.limit = last.query.limit
       /\ last.served[1].by.search_type = last.query.search_type

C17_Witness ==
    /\ last.op = "search_cases"
    /\ last.from_cache
    /\ last.results # <<>>
    /\ last.query.limit = 1

(***************************************************************************)
(* C18: a search made without cache client, or during which the cache      *)
(* read or the cache write raises, does not raise and returns a result     *)
(* that the same search returns in a deployment without cache.             *)
(***************************************************************************)
CacheUnavailable ==
    /\ last.op = "search_cases"
    /\ \/ ~clients.redis_client
       \/ last.env.read_fails
       \/ last.env.write_fails /\ ~last.from_cache

C18_CacheFailureIsHarmless ==
    CacheUnavailable
    => /\ ~last.raised
       /\ ~last.from_cache
       /\ \E out \in search_cases(cases, [clients EXCEPT !.redis_client = FALSE], <<>>,
                                  last.query,
                                  [last.env EXCEPT !.read_fails = FALSE,
                                                   !.write_fails = FALSE]) :
             /\ ~out.raised
             /\ out.results = last.results

C18_Witness ==
    /\ last.op = "search_cases"
    /\ last.env.read_fails
    /\ last.env.write_fails
    /\ CacheKey(last.query) \in DOMAIN cache
    /\ last.results # <<>>

(***************************************************************************)
(* C19: every mention of a brief is in exactly one of validated_citations  *)
(* and problematic_citations, so that their lengths add up to              *)
(* total_citations; each problematic entry has a non-empty diagnostic; a   *)
(* mention that resolves to nothing is reported, not raised.               *)
(***************************************************************************)
Occurrences(sq, cite) == Cardinality({i \in DOMAIN sq : sq[i] = cite})

Entries(sq, cite) == Cardinality({i \in DOMAIN sq : sq[i].citation = cite})

C19_EveryMentionAccounted ==
    last.op = "validate_citations"
    => /\ Len(last.validated) + Len(last.problematic) = last.total
       /\ \A cite \in Range(request.cites) :
             /\ Entries(last.validated, cite) + Entries(last.problematic, cite)
                   = Occurrences(request.cites, cite)
             /\ FoundRows(cases, cite) = {}
                   => Entries(last.problematic, cite) = Occurrences(request.cites, cite)
       /\ \A x \in Range(last.problematic) : x.problem \notin {None, ""}

C19_Witness ==
    /\ last.op = "validate_citations"
    /\ last.total = MaxMentions
    /\ last.validated # <<>>
    /\ \E x \in Range(last.problematic) :
          FoundRows(cases, x.citation) = {} /\ x.problem = "Not found in database"

(***************************************************************************)
(* C20: of a page of edges handed to the database, an edge that names an   *)
(* absent case is skipped and every edge between two present cases is      *)
(* stored, those after a rejected edge included.                           *)
(***************************************************************************)
BothPresent(corpus, cite) ==
    cite.citing_opinion \in DOMAIN corpus /\ cite.cited_opinion \in DOMAIN corpus

C20_RejectedEdgeDoesNotAbortBatch ==
    last.op = "import_citations"
    => \A i \in DOMAIN last.results :
          LET cite == last.results[i]
              stored == \E r \in BagToSet(citations) :
                           r.source = cite.citing_opinion /\ r.target = cite.cited_opinion
          IN  stored <=> BothPresent(cases, cite)

C20_Witness ==
    /\ last.op = "import_citations"
    /\ \E i, j \in DOMAIN last.results :
          /\ i < j
          /\ ~BothPresent(cases, last.results[i])
          /\ BothPresent(cases, last.results[j])
          /\ \E r \in BagToSet(citations) :
                /\ r.source = last.results[j].citing_opinion
                /\ r.target = last.results[j].cited_opinion

(***************************************************************************)
(* C21: the diagnostic of an unresolved mention is the first that applies  *)
(* of: incomplete citation format (no reporter), very old case (year       *)
(* below 1950), possible negative signal (the text contains "overruled"),  *)
(* not found.                                                              *)
(***************************************************************************)
DiagnosticByPriority(cite) ==
    IF cite.reporter = <<>> THEN "Incomplete citation format"
    ELSE IF cite.year # 0 /\ cite.year < 1950
    THEN "Very old case - check if still good law"
    ELSE IF cite.text # <<>> /\ Contains(LowerText(cite.text), <<"overruled">>)
    THEN "May have been overruled"
    ELSE "Not found in database"

C21_DiagnosticPriority ==
    last.op = "validate_citations"
    => \A x \in Range(last.problematic) : x.problem = DiagnosticByPriority(x.citation)

(***************************************************************************)
(* backend/main.py: get_case_citations.  An entry of citing_cases or       *)
(* cited_cases is [id, signal].                                            *)
(***************************************************************************)
\* the orders ORDER BY c.decision_date DESC NULLS LAST can return the rows
\* in; side names the column of the row the case is joined on
OrderedByDate(rows, corpus, side) ==
    LET kinds == BagToSet(rows)
        n == BagCardinality(rows)
        other(r) == IF side = "source" THEN r.source ELSE r.target
        date(r) == corpus[other(r)].decision_date
        before(r, t) == IF date(r) = NULLN THEN FALSE
                        ELSE IF date(t) = NULLN THEN TRUE ELSE date(r) > date(t)
    IN  {sq \in [1..n -> kinds] :
            /\ \A r \in kinds : Cardinality({i \in 1..n : sq[i] = r}) = rows[r]
            /\ \A i, j \in 1..n : i < j => ~before(sq[j], sq[i])}

get_case_citations(tbl, corpus, case_id) ==
    LET cited_rows == LET S == {r \in BagToSet(tbl) :
                           r.source = case_id /\ r.target \in DOMAIN corpus}
                      IN  [r \in S |-> tbl[r]]
    IN  {[op |-> "get_case_citations", case_id |-> case_id,
          citing_cases |-> [i \in DOMAIN citing |->
                              [id |-> citing[i].source, signal |-> citing[i].signal]],
          cited_cases |-> [i \in DOMAIN cited |->
                              [id |-> cited[i].target, signal |-> cited[i].signal]],
          citing_count |-> Len(citing), cited_count |-> Len(cited)] :
            citing \in OrderedByDate(CitingRows(tbl, corpus, case_id), corpus, "source"),
            cited \in OrderedByDate(cited_rows, corpus, "target")}

GetCaseCitations(case_id) ==
    /\ \E answer \in get_case_citations(citations, cases, case_id) : last' = answer
    /\ UNCHANGED <<cases, citations, request, clients, cache, tables>>

(***************************************************************************)
(* The two readers of the edges that cite a case, over stored edge sets    *)
(* with one edge for a pair, in which two citing cases have the same       *)
(* decision date and one has none.                                         *)
(***************************************************************************)
MaxCiting == 3

CitingCorpus ==
    [id \in {"c1", "c2", "c3", "c4"} |->
        CaseRow(<<id>>, IF id = "c1" THEN 1 ELSE IF id = "c4" THEN NULLN ELSE 2,
                NULL, <<>>, NULL)]

CitingEdges ==
    [source : {"c2", "c3", "c4"}, target : {"c1"}, signal : {NULL, "followed"},
     confidence : {NULLN}]
    \cup {CitationRow("c1", "c2", NULL, NULLN)}

InitCiting ==
    /\ cases = CitingCorpus
    /\ \E S \in SUBSET CitingEdges :
          /\ Cardinality(S) <= MaxCiting
          /\ \A r, t \in S : r.source = t.source /\ r.target = t.target => r = t
          /\ citations = SetToBag(S)
    /\ request = [op |-> None]
    /\ clients = [started |-> FALSE]
    /\ cache = <<>>
    /\ tables = <<>>
    /\ last = [op |-> "init"]

NextCiting ==
    \/ \E case_id \in {"c1", "c2"} : GetCaseCitations(case_id)
    \/ \E case_id \in {"c1", "c2"} : GetCitator(case_id)

SpecCiting == InitCiting /\ [][NextCiting]_vars

(***************************************************************************)
(* C22: the citing cases returned for a case are the sources of all and    *)
(* only the edges that target it, most recent decision date first, and     *)
(* two calls over the same edge set return them in the same order.         *)
(***************************************************************************)
CitingSources(case_id) == {r.source : r \in {x \in BagToSet(citations) : x.target = case_id}}

C22_EdgesCitingStableOrder ==
    [][(/\ last.op = "get_case_citations"
        /\ last'.op = "get_case_citations"
        /\ last'.case_id = last.case_id)
       => /\ {last'.citing_cases[i].id : i \in DOMAIN last'.citing_cases}
                = CitingSources(last'.case_id)
          /\ last'.citing_cases = last.citing_cases]_vars

(***************************************************************************)
(* C23: the signal detect_signal returns, and the signal of every stored   *)
(* edge, is one of overruled, criticized, questioned, followed, affirmed,  *)
(* cited_favorably, cited.                                                 *)
(***************************************************************************)
SignalValues ==
    {"overruled", "criticized", "questioned", "followed", "affirmed", "cited_favorably",
     "cited"}

C23_SignalsWithinEnumeration ==
    /\ \A r \in BagToSet(citations) : r.signal \in SignalValues
    /\ last.op = "process_citation" => last.signal \in SignalValues

(***************************************************************************)
(* C24: every result of a semantic search is at least as similar to the    *)
(* query as the similarity floor, and has an embedding.                    *)
(***************************************************************************)
C24_SemanticResultsAboveFloor ==
    (Searched /\ ~last.raised /\ last.query.search_type = "semantic")
    => \A i \in DOMAIN last.results :
          /\ cases[last.results[i].id].embedding # NULL
          /\ Similarity(cases, last.query.query.sim, last.results[i].id) >= SimilarFloor

(***************************************************************************)
(* A deployment with the relational search and a cache, in which the       *)
(* embedding service fails during some calls and answers during others.    *)
(***************************************************************************)
InitDegraded ==
    /\ cases = SearchCorpus
    /\ citations = EmptyBag
    /\ request \in [op : {"search"},
                    config : [OPENSEARCH_URL : {FALSE}, REDIS_URL : {TRUE},
                              OPENAI_API_KEY : {TRUE}],
                    faults : {{"embedding"}}]
    /\ clients = [started |-> FALSE, osearch_client |-> FALSE, redis_client |-> FALSE,
                  openai_api_key |-> FALSE]
    /\ cache = <<>>
    /\ tables = <<>>
    /\ last = [op |-> "init"]

NextDegraded ==
    \/ Startup
    \/ \E query \in Queries : SearchCases(query)
    \/ \E cache_key \in DOMAIN cache : CacheExpire(cache_key)

SpecDegraded == InitDegraded /\ [][NextDegraded]_vars

(***************************************************************************)
(* C26: a hybrid search made while the embedding step works is not         *)
(* answered from a cache entry that was computed while it was failing.     *)
(***************************************************************************)
C26_DegradedResultNotServed ==
    (/\ last.op = "search_cases"
     /\ last.from_cache
     /\ last.query.search_type = "hybrid"
     /\ ~last.env.embedding_fails)
    => ~last.served[1].degraded

(***************************************************************************)
(* scripts/extract_citations.py: update_citation_counts.                   *)
(***************************************************************************)
\* UPDATE cases c SET citation_count = sub.count FROM (SELECT cited_case_id,
\* COUNT(*) ... GROUP BY cited_case_id) sub WHERE c.id = sub.cited_case_id:
\* a case is updated when the subquery has a row for it
update_citation_counts(corpus, tbl) ==
    [id \in DOMAIN corpus |->
        LET count == BagSum(tbl, {r \in BagToSet(tbl) : r.target = id})
        IN  IF count > 0 THEN [corpus[id] EXCEPT !.citation_count = count]
            ELSE corpus[id]]

UpdateCitationCounts ==
    /\ cases' = update_citation_counts(cases, citations)
    /\ last' = [op |-> "update_citation_counts"]
    /\ UNCHANGED <<citations, request, clients, cache, tables>>

(***************************************************************************)
(* The counts under the scripts that write edges: the cases come from an   *)
(* import that sets citation_count from the citeCount of the record.       *)
(***************************************************************************)
ImportedCounts == {0, 1}

InitCounts ==
    /\ cases \in [{"c1", "c2"} -> {BriefRow(<<>>, NULL, NULL, n) : n \in ImportedCounts}]
    /\ citations = EmptyBag
    /\ request = [op |-> None]
    /\ clients = [started |-> FALSE]
    /\ cache = <<>>
    /\ tables = <<>>
    /\ last = [op |-> "init"]

NextCounts ==
    \/ \E case_id \in DOMAIN cases,
          content \in [len : {0, MinContentLen}, cites : SeqsUpTo(ContentCites, MaxBatch)] :
          ExtractProcessCase(case_id, content)
    \/ \E csv \in SeqsUpTo(MapCsvRows, MaxBatch) : ImportCitationsLocal(csv)
    \/ UpdateCitationCounts

SpecCounts == InitCounts /\ [][NextCounts]_vars

(***************************************************************************)
(* C27: after update_citation_counts the citation_count of every case is   *)
(* the number of stored edges that target it, zero included.               *)
(***************************************************************************)
C27_CountsMatchIncomingEdges ==
    last.op = "update_citation_counts"
    => \A id \in DOMAIN cases :
          cases[id].citation_count
             = BagSum(citations, {r \in BagToSet(citations) : r.target = id})

(***************************************************************************)
(* C30: process_new_cases reaches every result of its batch, whatever      *)
(* happens while an earlier result is imported.                            *)
(***************************************************************************)
C30_FailureDoesNotStopBatch ==
    last.op = "process_new_cases" => last.reached = Len(last.batch)

(***************************************************************************)
(* backend/simple_api.py: handle_courtlistener_webhook.  The handler runs  *)
(* up to its first await (the idempotency check), and after its awaits     *)
(* (request.json, connect, the processing of the payload) marks the event. *)
(* request.deliveries are the deliveries CourtListener makes; tables has   *)
(* the module global processed_events.                                     *)
(***************************************************************************)
EventsKept == 10000
Deliveries == 3

IdempotencyKeys == {"K", "J", None}

SetDelivery(d, delivery) == [request EXCEPT !.deliveries[d] = delivery]

\* if idempotency_key and idempotency_key in processed_events: return
\* {"status": "already_processed"}
WebhookCheck(d) ==
    LET delivery == request.deliveries[d]
        seen == delivery.idempotency_key # None
                   /\ delivery.idempotency_key \in tables.processed_events
    IN  /\ delivery.pc = "arrived"
        /\ request' = SetDelivery(d, IF seen
                                     THEN [delivery EXCEPT !.pc = "done",
                                                           !.status = "already_processed"]
                                     ELSE [delivery EXCEPT !.pc = "processing"])
        /\ last' = [op |-> "handle_courtlistener_webhook", delivery |-> d, step |-> "check"]
        /\ UNCHANGED <<cases, citations, clients, cache, tables>>

\* the payload is processed, or an exception is caught and "error" returned;
\* after the processing: processed_events.add(idempotency_key), and
\* processed_events.clear() when it holds more than EventsKept keys
WebhookProcess(d) ==
    LET delivery == request.deliveries[d]
        added == tables.processed_events \cup {delivery.idempotency_key}
    IN  /\ delivery.pc = "processing"
        /\ \E raised \in BOOLEAN :
              /\ request' = SetDelivery(d, [delivery EXCEPT
                               !.pc = "done",
                               !.status = IF raised THEN "error" ELSE "success"])
              /\ tables' = IF raised \/ delivery.idempotency_key = None THEN tables
                           ELSE [tables EXCEPT !.processed_events =
                                    IF Cardinality(added) > EventsKept THEN {} ELSE added]
        /\ last' = [op |-> "handle_courtlistener_webhook", delivery |-> d, step |-> "process"]
        /\ UNCHANGED <<cases, citations, clients, cache>>

InitWebhook ==
    /\ cases = <<>>
    /\ citations = EmptyBag
    /\ request \in {[op |-> "webhook", deliveries |-> ds] :
                       ds \in [1..Deliveries ->
                                 [idempotency_key : IdempotencyKeys, pc : {"arrived"},
                                  status : {None}]]}
    /\ clients = [started |-> FALSE]
    /\ cache = <<>>
    /\ tables = [processed_events |-> {}]
    /\ last = [op |-> "init"]

NextWebhook ==
    \E d \in 1..Deliveries : WebhookCheck(d) \/ WebhookProcess(d)

SpecWebhook == InitWebhook /\ [][NextWebhook]_vars

(***************************************************************************)
(* C25: of the deliveries that carry one Idempotency-Key at most one has   *)
(* its payload processed; the others return already_processed.             *)
(***************************************************************************)
C25_SameKeyProcessedOnce ==
    \A key \in IdempotencyKeys \ {None} :
       Cardinality({d \in DOMAIN request.deliveries :
                       /\ request.deliveries[d].idempotency_key = key
                       /\ request.deliveries[d].status = "success"}) <= 1

(***************************************************************************)
(* backend/main.py: summarize_case and log_api_usage.  A call reads the    *)
(* stored summary and the case, then awaits the summarization model, then  *)
(* stores the summary and logs the usage.  tables has ai_summaries (the    *)
(* summary stored for a case: the call that wrote it), the call_count of   *)
(* api_usage_log, and how many summaries the model has generated for each  *)
(* case.  ANTHROPIC_API_KEY is configured.                                 *)
(***************************************************************************)
SummaryCalls == [case_id : {"c1", "c3"}, pc : {"start"}, status : {None}, cached : {FALSE}]

\* cached = fetchrow(... FROM ai_summaries WHERE case_id = $1); row = the
\* case; 404 without row; the stored summary when there is one
SummarizeRead(w) ==
    LET call == request.calls[w]
    IN  /\ call.pc = "start"
        /\ request' = SetCall(w,
              IF call.case_id \notin DOMAIN cases
              THEN [call EXCEPT !.pc = "done", !.status = 404]
              ELSE IF call.case_id \in DOMAIN tables.ai_summaries
              THEN [call EXCEPT !.pc = "done", !.status = 200, !.cached = TRUE]
              ELSE [call EXCEPT !.pc = "calling"])
        /\ last' = [op |-> "summarize_case", caller |-> w, step |-> "read"]
        /\ UNCHANGED <<cases, citations, clients, cache, tables>>

\* await client.post("https://api.anthropic.com/v1/messages", ...): a
\* summary, or an HTTPException (timeout, status, no text block)
SummarizeCall(w) ==
    LET call == request.calls[w]
    IN  /\ call.pc = "calling"
        /\ \E answered \in BOOLEAN :
              /\ request' = SetCall(w, IF answered THEN [call EXCEPT !.pc = "saving"]
                                       ELSE [call EXCEPT !.pc = "done", !.status = 500])
              /\ tables' = IF answered
                           THEN [tables EXCEPT !.generated[call.case_id] = @ + 1]
                           ELSE tables
        /\ last' = [op |-> "summarize_case", caller |-> w, step |-> "model"]
        /\ UNCHANGED <<cases, citations, clients, cache>>

\* INSERT INTO ai_summaries ... ON CONFLICT (case_id) DO UPDATE, then
\* log_api_usage("ai_summary", ...), then the summary with cached = False
SummarizeSave(w) ==
    LET call == request.calls[w]
    IN  /\ call.pc = "saving"
        /\ tables' = [tables EXCEPT
              !.ai_summaries = [id \in DOMAIN tables.ai_summaries \cup {call.case_id} |->
                                  IF id = call.case_id THEN w ELSE tables.ai_summaries[id]],
              !.api_usage_log = @ + 1]
        /\ request' = SetCall(w, [call EXCEPT !.pc = "done", !.status = 200])
        /\ last' = [op |-> "summarize_case", caller |-> w, step |-> "save"]
        /\ UNCHANGED <<cases, citations, clients, cache>>

InitSummaries ==
    /\ cases = GraphCorpus
    /\ citations = EmptyBag
    /\ request \in {[op |-> "summarize_case", calls |-> calls] :
                       calls \in [1..(Callers + 1) -> SummaryCalls]}
    /\ clients = [started |-> FALSE]
    /\ cache = <<>>
    /\ tables = [ai_summaries |-> <<>>, api_usage_log |-> 0,
                 generated |-> [id \in DOMAIN GraphCorpus |-> 0]]
    /\ last = [op |-> "init"]

NextSummaries ==
    \E w \in 1..(Callers + 1) : SummarizeRead(w) \/ SummarizeCall(w) \/ SummarizeSave(w)

SpecSummaries == InitSummaries /\ [][NextSummaries]_vars

(***************************************************************************)
(* C28: for every case the summarization model generates at most one       *)
(* summary and the usage log counts at most one call for it, however the   *)
(* summarize_case calls for the case interleave.                           *)
(***************************************************************************)
C28_SummaryGeneratedOnce ==
    /\ \A id \in DOMAIN tables.generated : tables.generated[id] <= 1
    /\ tables.api_usage_log <= Cardinality(DOMAIN tables.ai_summaries)

(***************************************************************************)
(* The chunked load of the opinions file (workers/bulk_loader.py           *)
(* load_opinions_chunked) with its checkpoint file.  The loader is a       *)
(* process that may be killed between any two of its steps and run again;  *)
(* what survives a kill is the database and the checkpoint file.           *)
(* tables.handed is the set of data rows that were ever passed to          *)
(* process_opinion_chunk.                                                  *)
(***************************************************************************)
OpinionRows == 5    \* data rows of the longest opinions.csv
chunk_size == 2     \* chunk_size = 1000 in the loader, scaled to the file

\* The files: data rows numbered from 1 (line 0 is the header), of which
\* row `blank` has no text and is not stored by process_opinion_chunk.
OpinionsCsv ==
    {[i \in 1..n |-> [id |-> i, case_name |-> TerryName,
                      text |-> IF i = blank THEN <<>> ELSE <<"first">>]] :
        n \in 0..OpinionRows, blank \in {0, 3}}

\* skiprows = range(1, start_row + 1) if start_row > 0 else None: the number
\* of data rows read_csv passes over before the first chunk
skiprows_one_more(start_row) == start_row + 1

skiprows(start_row) == IF start_row > 0 THEN start_row ELSE 0

\* the rows of the next chunk of pd.read_csv(csv_file, chunksize=chunk_size)
\* after n data rows of the file csv
read_csv(csv, n) == (n + 1)..Min(n + chunk_size, Len(csv))

\* the data frame of the rows from..to
DataFrame(csv, from, to) ==
    [i \in 1..(IF to < from THEN 0 ELSE to - from + 1) |-> csv[from + i - 1]]

Loader(pc) ==
    [op |-> "load_opinions_chunked", pc |-> pc, start_row |-> 0, total_processed |-> 0,
     read |-> 0, run_handed |-> {}, replaced |-> 0]

\* json.load of the checkpoint file; {} without a file; a file that was
\* truncated and not written is no JSON document
LoadCheckpoint ==
    LET file == tables.checkpoint_file
        start_row == IF file.state = "saved" THEN file.opinions_row ELSE 0
    IN  /\ request.pc = "start"
        /\ request' = IF file.state = "torn" THEN Loader("raised")
                      ELSE [Loader("reading") EXCEPT !.start_row = start_row,
                                                     !.total_processed = start_row,
                                                     !.read = skiprows(start_row)]
        /\ last' = [op |-> "load_checkpoint"]
        /\ UNCHANGED <<cases, citations, clients, cache, tables>>

\* one turn of the for loop up to the checkpoint: the next chunk is handed to
\* process_opinion_chunk and counted; without a chunk the load is complete
ProcessChunk ==
    LET chunk == read_csv(tables.opinions_csv, request.read)
    IN  /\ request.pc = "reading"
        /\ IF chunk = {}
           THEN /\ request' = [request EXCEPT !.pc = "done"]
                /\ UNCHANGED <<cases, tables>>
           ELSE /\ cases' = process_opinion_chunk(cases,
                               DataFrame(tables.opinions_csv, request.read + 1, request.read + Cardinality(chunk)))
                /\ tables' = [tables EXCEPT !.handed = @ \cup chunk]
                /\ request' = [request EXCEPT
                      !.pc = "saving",
                      !.read = @ + Cardinality(chunk),
                      !.total_processed = @ + Cardinality(chunk),
                      !.run_handed = @ \cup chunk]
        /\ last' = [op |-> "process_opinion_chunk", chunk |-> chunk]
        /\ UNCHANGED <<citations, clients, cache>>

\* save_checkpoint, open(self.checkpoint_file, 'w'): the file is truncated
SaveOpen ==
    LET file == tables.checkpoint_file
    IN  /\ request.pc = "saving"
        /\ tables' = [tables EXCEPT !.checkpoint_file = [state |-> "torn", opinions_row |-> 0]]
        /\ request' = [request EXCEPT
              !.pc = "dumping",
              !.replaced = IF file.state = "saved" THEN file.opinions_row ELSE 0]
        /\ last' = [op |-> "open"]
        /\ UNCHANGED <<cases, citations, clients, cache>>

\* save_checkpoint, json.dump(data, f) and the close of the file
SaveDump ==
    /\ request.pc = "dumping"
    /\ tables' = [tables EXCEPT !.checkpoint_file =
                     [state |-> "saved", opinions_row |-> request.total_processed]]
    /\ request' = [request EXCEPT !.pc = "reading"]
    /\ last' = [op |-> "save_checkpoint", before |-> request.replaced,
                after |-> request.total_processed]
    /\ UNCHANGED <<cases, citations, clients, cache>>

\* The process is killed between two steps, or has returned, and main() is
\* run again.
Interrupt ==
    /\ request.pc \in {"reading", "saving", "dumping", "done"}
    /\ request' = Loader("start")
    /\ last' = [op |-> "interrupt", at |-> request.pc]
    /\ UNCHANGED <<cases, citations, clients, cache, tables>>

\* The process is killed inside process_opinion_chunk, after the first k
\* rows of the chunk.
InterruptChunk ==
    LET chunk == read_csv(tables.opinions_csv, request.read)
    IN  /\ request.pc = "reading"
        /\ chunk # {}
        /\ \E k \in 0..(Cardinality(chunk) - 1) :
              cases' = process_opinion_chunk(cases,
                          DataFrame(tables.opinions_csv, request.read + 1, request.read + k))
        /\ tables' = [tables EXCEPT !.handed = @ \cup chunk]
        /\ request' = Loader("start")
        /\ last' = [op |-> "interrupt", at |-> "process_opinion_chunk"]
        /\ UNCHANGED <<citations, clients, cache>>

InitOpinions ==
    /\ cases = <<>>
    /\ citations = EmptyBag
    /\ request = Loader("start")
    /\ clients = [started |-> FALSE]
    /\ cache = <<>>
    /\ tables \in {[opinions_csv |-> csv, handed |-> {},
                   checkpoint_file |-> [state |-> "absent", opinions_row |-> 0]] :
                     csv \in OpinionsCsv}
    /\ last = [op |-> "init"]

NextOpinions ==
    \/ LoadCheckpoint
    \/ ProcessChunk
    \/ SaveOpen
    \/ SaveDump
    \/ Interrupt
    \/ InterruptChunk

SpecOpinions == InitOpinions /\ [][NextOpinions]_vars

(***************************************************************************)
(* C29: a resumed load of the opinions file skips no row.  A saved         *)
(* checkpoint only covers rows that were handed to process_opinion_chunk,  *)
(* save_checkpoint never writes a smaller row number than the one it       *)
(* replaces, a run reads the rows from its start row on without a gap, and *)
(* a run that completes has handed every row from its start row to the     *)
(* end of the file.                                                        *)
(***************************************************************************)
C29_ResumeSkipsNoRow ==
    /\ tables.checkpoint_file.state = "saved"
          => (1..tables.checkpoint_file.opinions_row) \subseteq tables.handed
    /\ last.op = "save_checkpoint" => last.after >= last.before
    /\ request.pc \in {"reading", "saving", "dumping", "done"}
          => /\ (1..request.start_row) \subseteq tables.handed
             /\ request.run_handed = (request.start_row + 1)..request.read
             /\ request.total_processed = request.read
    /\ request.pc = "done"
          => /\ request.run_handed = (request.start_row + 1)..Len(tables.opinions_csv)
             /\ tables.handed = DOMAIN tables.opinions_csv

\* a load that was resumed from a saved checkpoint inside the file and ran
\* to the end of the file
C29_ResumedLoadCompleted ==
    /\ request.pc = "done"
    /\ request.start_row > 0
    /\ request.start_row < Len(tables.opinions_csv)
    /\ request.run_handed # {}

====
